---- MODULE Spec2Model ----
(***************************************************************************)
(* A model of the resilient request-execution core of ethereum-mcp-server: *)
(*   - NonceManager   (src/src/providers/nonce_manager.rs)                 *)
(*   - CircuitBreaker (src/src/providers/circuit_breaker.rs)               *)
(*   - retry_with_backoff and the provider operations of                   *)
(*     AlloyEthereumProvider (src/src/providers/ethereum.rs)               *)
(*   - TokenAmount and the Decimal / U256 conversions                      *)
(*     (src/src/types/mod.rs, src/src/providers/ethereum.rs)               *)
(*   - ProviderFactory::create_ethereum_provider_with_failover             *)
(*     (src/src/providers/mod.rs)                                          *)
(* Each component has its own specification (SpecNonce, SpecCB, SpecCBSeq, *)
(* SpecCalls, SpecRetry, SpecProvider, SpecPrice, SpecNum, SpecFailover)   *)
(* over the shared variable list; a component's actions leave the other    *)
(* components' variables unchanged.                                        *)
(***************************************************************************)
EXTENDS Integers, Sequences, FiniteSets, Bags, TLC

(***************************************************************************)
(* Bounds of the model.                                                    *)
(***************************************************************************)
\* Number of tasks that call into a component concurrently.
NumTasks == 2
\* Largest nonce value a caller passes in (blockchain_nonce, new_nonce, failed_nonce).
MaxArg == 1
\* Number of nonce values handed out to callers in one behaviour.
MaxIssued == 2

\* Largest failure_threshold / success_threshold a breaker is configured with.
MaxThreshold == 2
\* Largest timeout_duration a breaker is configured with, in clock ticks.
MaxTimeout == 2
\* Clock ticks per second: the clock's resolution is finer than the whole seconds
\* the breaker keeps (Duration and SystemTime count nanoseconds).
TicksPerSec == 2

\* Largest max_retries retry_with_backoff is called with.
MaxRetries == 4
\* Largest max_concurrent_requests a provider is built with.
MaxPermits == 2

\* Longest list of RPC URLs a provider is created from.
MaxUrls == 3

\* Largest n in the mantissas n * 10^k and n * 10^k + 1 of the Decimals drawn.
MaxAmount == 12
\* Largest block number of a receipt or of the chain's head.
MaxBlock == 3

Tasks == 1..NumTasks
NoTask == 0
Wallets == {"w1", "w2"}
NonceArgs == 0..MaxArg

VARIABLES
    \* ---- NonceManager ----
    nonces,      \* HashMap<WalletAddress, u64>: a function whose domain is the wallets with an entry
    guard,       \* the task holding the tokio Mutex around the map, or NoTask
    npc,         \* per task: "idle", or "read" between a method's read of the map and its write
    ncall,       \* per task: the method it is inside, its arguments and its local
    \* ---- history of what NonceManager's callers observed ----
    issued,      \* per wallet: the bag of values returned by get_next_nonce / handle_nonce_conflict
    base,        \* per wallet: the stored value (0 if none) after the last call other than get_next_nonce
    run,         \* per wallet: the values get_next_nonce returned since then, in order
    lastOp,      \* per wallet: the last completed call, [op, arg, ret]
    lastStored,  \* per wallet: <<>> if no insert ever ran for it, else <<v>> for the last inserted v
    \* ---- CircuitBreaker ----
    cbState,            \* state: RwLock<CircuitState>
    failure_count,      \* AtomicUsize
    success_count,      \* AtomicUsize
    last_failure_time,  \* AtomicU64: whole seconds since the epoch
    config,             \* CircuitBreakerConfig; timeout_duration in clock ticks
    now,                \* the system clock, in ticks
    cpc,                \* per task: where it is inside CircuitBreaker::call
    ccall,              \* per task: the locals of its call
    \* ---- history of what the breaker did ----
    lastFailAt,         \* the clock tick at which last_failure_time was last stored
    \* ---- retry_with_backoff ----
    rpc,                \* per task: where its retry loop is: "idle", "attempt", "backoff", "done"
    rcall,              \* per task: the loop's arguments and locals, and what it returns
    \* ---- AlloyEthereumProvider ----
    max_concurrent_requests,  \* the size the request semaphore was built with
    permits,            \* request_semaphore: the permits available
    waitq,              \* request_semaphore: the tasks queued in acquire(), oldest first
    pstack,             \* per task: the provider operations it is inside, outermost first
    \* ---- history of a sequence of whole breaker calls ----
    failRun,            \* the operations that failed since the last one that succeeded
    maxRun,             \* the longest such run so far
    failedCalls,        \* the operations that failed so far
    \* ---- one call of a conversion or computation ----
    numCall,            \* the function called and its arguments
    numRet,             \* what it returned
    \* ---- ProviderFactory::create_ethereum_provider_with_failover ----
    failover            \* one call: its arguments, its loop's locals and what it returned

nonceVars == <<nonces, guard, npc, ncall, issued, base, run, lastOp, lastStored>>
cbVars == <<cbState, failure_count, success_count, last_failure_time, config, now,
            cpc, ccall, lastFailAt>>
retryVars == <<rpc, rcall>>
provVars == <<max_concurrent_requests, permits, waitq, pstack>>
histVars == <<failRun, maxRun, failedCalls>>
numVars == <<numCall, numRet>>
failVars == <<failover>>
vars == <<nonces, guard, npc, ncall, issued, base, run, lastOp, lastStored,
          cbState, failure_count, success_count, last_failure_time, config, now,
          cpc, ccall, lastFailAt, rpc, rcall,
          max_concurrent_requests, permits, waitq, pstack,
          failRun, maxRun, failedCalls, numCall, numRet, failover>>

\* What a NonceManager step leaves alone: the other components' variables.
NonceFrame == UNCHANGED <<cbVars, retryVars, provVars, histVars, numVars, failVars>>

\* What a CircuitBreaker step leaves alone: the other components' variables.
CBFrame == UNCHANGED <<nonceVars, retryVars, provVars, histVars, numVars, failVars>>

(***************************************************************************)
(* NonceManager.  Every method starts with self.nonces.lock().await and    *)
(* holds the guard to its end.  A method that touches the map once is one  *)
(* step; get_next_nonce and initialize_nonce, which read the map and then  *)
(* write it, are two steps with the guard held in between.  tracing's      *)
(* debug!/warn! calls are not modelled.                                    *)
(***************************************************************************)
EmptyMap == [x \in {} |-> 0]

\* nonces.get(wallet).copied().unwrap_or(0)
NonceGetOrZero(m, w) == IF w \in DOMAIN m THEN m[w] ELSE 0

\* nonces.get(wallet).copied() : Option<u64>, None as <<>> and Some(v) as <<v>>
NonceGetCopied(m, w) == IF w \in DOMAIN m THEN <<m[w]>> ELSE <<>>

\* nonces.insert(wallet, v)
MapInsertAlone(m, w, v) == [x \in {w} |-> v]
MapInsert(m, w, v) == [x \in (DOMAIN m) \cup {w} |-> IF x = w THEN v ELSE m[x]]

NoCall == [op |-> "none", wallet |-> "w1", arg |-> 0, cur |-> 0]

ReturnsNonce(o) == o \in {"get_next_nonce", "handle_nonce_conflict"}

\* Values handed out so far plus calls in flight that will hand one out.
RECURSIVE HandedOut(_)
HandedOut(W) == IF W = {} THEN 0
                ELSE LET w == CHOOSE x \in W : TRUE
                     IN BagCardinality(issued[w]) + HandedOut(W \ {w})

IssuedCount == HandedOut(Wallets) + Cardinality({t \in Tasks : ReturnsNonce(ncall[t].op)})

\* self.nonces.lock().await completes only while no other task holds the guard.
MutexFreeUnguarded == TRUE
MutexFree == guard = NoTask

\* What the caller of a completed method observed, recorded per wallet.
\* ret is <<>> for () and None, <<v>> for a returned v and for Some(v).
Completed(w, o, a, r, m) ==
    /\ issued' = IF ReturnsNonce(o)
                 THEN [issued EXCEPT ![w] = @ (+) SetToBag({r[1]})]
                 ELSE issued
    /\ run' = IF o = "get_next_nonce"
              THEN [run EXCEPT ![w] = Append(@, r[1])]
              ELSE [run EXCEPT ![w] = <<>>]
    /\ base' = IF o = "get_next_nonce"
               THEN base
               ELSE [base EXCEPT ![w] = NonceGetOrZero(m, w)]
    /\ lastOp' = [lastOp EXCEPT ![w] = [op |-> o, arg |-> a, ret |-> r]]

\* get_next_nonce, lines 27-28: lock; current_nonce = nonces.get(..).copied().unwrap_or(0)
GetNextRead(t, w) ==
    /\ npc[t] = "idle"
    /\ MutexFree
    /\ IssuedCount < MaxIssued
    /\ guard' = t
    /\ npc' = [npc EXCEPT ![t] = "read"]
    /\ ncall' = [ncall EXCEPT ![t] = [op |-> "get_next_nonce", wallet |-> w, arg |-> 0,
                                      cur |-> NonceGetOrZero(nonces, w)]]
    /\ UNCHANGED <<nonces, issued, base, run, lastOp, lastStored>>
    /\ NonceFrame

\* get_next_nonce, line 29: let next_nonce = current_nonce + 1
NextNonce(current_nonce) == current_nonce + 1

\* get_next_nonce, lines 29-39: insert(wallet, next_nonce); return next_nonce, dropping the guard
GetNextInsert(t) ==
    /\ npc[t] = "read" /\ ncall[t].op = "get_next_nonce"
    /\ LET w == ncall[t].wallet
           next_nonce == NextNonce(ncall[t].cur)
       IN /\ nonces' = MapInsert(nonces, w, next_nonce)
          /\ lastStored' = [lastStored EXCEPT ![w] = <<next_nonce>>]
          /\ Completed(w, "get_next_nonce", 0, <<next_nonce>>, nonces')
    /\ guard' = NoTask
    /\ npc' = [npc EXCEPT ![t] = "idle"]
    /\ ncall' = [ncall EXCEPT ![t] = NoCall]
    /\ NonceFrame

\* initialize_nonce, lines 44-45: lock; current_local_nonce = nonces.get(..).copied().unwrap_or(0)
InitRead(t, w, blockchain_nonce) ==
    /\ npc[t] = "idle"
    /\ MutexFree
    /\ guard' = t
    /\ npc' = [npc EXCEPT ![t] = "read"]
    /\ ncall' = [ncall EXCEPT ![t] = [op |-> "initialize_nonce", wallet |-> w,
                                      arg |-> blockchain_nonce,
                                      cur |-> NonceGetOrZero(nonces, w)]]
    /\ UNCHANGED <<nonces, issued, base, run, lastOp, lastStored>>
    /\ NonceFrame

\* initialize_nonce, line 47: the test that decides whether the chain's value is stored
InitShouldStoreOrEqual(blockchain_nonce, current_local_nonce) ==
    blockchain_nonce >= current_local_nonce
InitShouldStore(blockchain_nonce, current_local_nonce) ==
    blockchain_nonce > current_local_nonce

\* initialize_nonce, lines 47-63: insert only when the chain is ahead (else only logging); return
InitCompare(t) ==
    /\ npc[t] = "read" /\ ncall[t].op = "initialize_nonce"
    /\ LET w == ncall[t].wallet
       IN /\ IF InitShouldStore(ncall[t].arg, ncall[t].cur)
             THEN /\ nonces' = MapInsert(nonces, w, ncall[t].arg)
                  /\ lastStored' = [lastStored EXCEPT ![w] = <<ncall[t].arg>>]
             ELSE UNCHANGED <<nonces, lastStored>>
          /\ Completed(w, "initialize_nonce", ncall[t].arg, <<>>, nonces')
    /\ guard' = NoTask
    /\ npc' = [npc EXCEPT ![t] = "idle"]
    /\ ncall' = [ncall EXCEPT ![t] = NoCall]
    /\ NonceFrame

\* reset_nonce, line 69: the value stored, given the value the map held (0 if none)
ResetStoredIfAhead(previous, new_nonce) == IF new_nonce > previous THEN new_nonce ELSE previous
ResetStored(previous, new_nonce) == new_nonce

\* reset_nonce, lines 67-76: lock; nonces.insert(wallet, new_nonce); return
ResetNonce(t, w, new_nonce) ==
    /\ npc[t] = "idle"
    /\ MutexFree
    /\ nonces' = MapInsert(nonces, w, ResetStored(NonceGetOrZero(nonces, w), new_nonce))
    /\ lastStored' = [lastStored EXCEPT ![w] = <<ResetStored(NonceGetOrZero(nonces, w), new_nonce)>>]
    /\ Completed(w, "reset_nonce", new_nonce, <<>>, nonces')
    /\ UNCHANGED <<guard, npc, ncall>>
    /\ NonceFrame

\* get_current_nonce, line 81: what the read does to the map and what it yields
CurrentLookupInserting(m, w) == [map |-> MapInsert(m, w, NonceGetOrZero(m, w)),
                                 opt |-> <<NonceGetOrZero(m, w)>>]
CurrentLookup(m, w) == [map |-> m, opt |-> NonceGetCopied(m, w)]

\* get_current_nonce, lines 79-82: lock; nonces.get(wallet).copied()
GetCurrentNonce(t, w) ==
    /\ npc[t] = "idle"
    /\ MutexFree
    /\ LET r == CurrentLookup(nonces, w)
       IN /\ nonces' = r.map
          /\ Completed(w, "get_current_nonce", 0, r.opt, nonces')
    /\ UNCHANGED <<guard, npc, ncall, lastStored>>
    /\ NonceFrame

\* handle_nonce_conflict, line 102: the value stored as the new current nonce
ConflictStoredNext(blockchain_nonce) == blockchain_nonce + 1
ConflictStored(blockchain_nonce) == blockchain_nonce

\* handle_nonce_conflict, lines 86-104: lock; insert(wallet, blockchain_nonce);
\* return blockchain_nonce + 1.  failed_nonce is only logged.
HandleNonceConflict(t, w, failed_nonce, blockchain_nonce) ==
    /\ npc[t] = "idle"
    /\ MutexFree
    /\ IssuedCount < MaxIssued
    /\ nonces' = MapInsert(nonces, w, ConflictStored(blockchain_nonce))
    /\ lastStored' = [lastStored EXCEPT ![w] = <<ConflictStored(blockchain_nonce)>>]
    /\ Completed(w, "handle_nonce_conflict", blockchain_nonce, <<blockchain_nonce + 1>>, nonces')
    /\ UNCHANGED <<guard, npc, ncall>>
    /\ NonceFrame

NonceInit ==
    /\ nonces = EmptyMap
    /\ guard = NoTask
    /\ npc = [t \in Tasks |-> "idle"]
    /\ ncall = [t \in Tasks |-> NoCall]
    /\ issued = [w \in Wallets |-> EmptyBag]
    /\ base = [w \in Wallets |-> 0]
    /\ run = [w \in Wallets |-> <<>>]
    /\ lastOp = [w \in Wallets |-> [op |-> "none", arg |-> 0, ret |-> <<>>]]
    /\ lastStored = [w \in Wallets |-> <<>>]

NonceNext ==
    \E t \in Tasks :
        \/ \E w \in Wallets : GetNextRead(t, w)
        \/ GetNextInsert(t)
        \/ \E w \in Wallets, b \in NonceArgs : InitRead(t, w, b)
        \/ InitCompare(t)
        \/ \E w \in Wallets, n \in NonceArgs : ResetNonce(t, w, n)
        \/ \E w \in Wallets : GetCurrentNonce(t, w)
        \/ \E w \in Wallets, f \in NonceArgs, b \in NonceArgs : HandleNonceConflict(t, w, f, b)

(***************************************************************************)
(* CircuitBreaker.  The state is behind a std RwLock that is taken for one *)
(* read or one write at a time; the counters are separate atomics.  Each   *)
(* lock section and each atomic operation is one step, so steps of         *)
(* concurrent calls interleave between them as threads of the runtime do.  *)
(***************************************************************************)
\* Duration::as_secs / duration_since(UNIX_EPOCH).as_secs(): whole seconds, rounded down
AsSecs(ticks) == ticks \div TicksPerSec

\* The run of the clock a behaviour covers.
MaxTime == TicksPerSec + 1
\* Cap on the failure counter, which the code only resets on a success.
MaxCount == MaxThreshold + 1

\* halfOpened is history: the call's update_state has written HalfOpen.
NoLocals == [sawOpen |-> FALSE, admitted |-> "none", observed |-> "none",
             count |-> 0, ok |-> FALSE, halfOpened |-> FALSE]

SetPc(t, p) == cpc' = [cpc EXCEPT ![t] = p]

\* call, line 73, and update_state, lines 203-208: the call begins with update_state,
\* which reads the state; only an Open breaker is examined further
CallStart(t) ==
    /\ cpc[t] = "idle"
    /\ ccall' = [ccall EXCEPT ![t] = [NoLocals EXCEPT !.sawOpen = (cbState = "Open")]]
    /\ SetPc(t, IF cbState = "Open" THEN "us_check" ELSE "read")
    /\ UNCHANGED <<cbState, failure_count, success_count, last_failure_time, config, now,
                   lastFailAt>>
    /\ CBFrame

\* update_state, line 215: now - last_failure >= self.config.timeout_duration.as_secs()
TimeoutNever(nowTicks, last_failure) == FALSE
TimeoutElapsed(nowTicks, last_failure) ==
    AsSecs(nowTicks) - last_failure >= AsSecs(config.timeout_duration)

\* update_state, lines 209-217: load last_failure_time, read the clock, compare
UpdateCheck(t) ==
    /\ cpc[t] = "us_check"
    /\ SetPc(t, IF TimeoutElapsed(now, last_failure_time) THEN "half_w" ELSE "read")
    /\ UNCHANGED <<cbState, failure_count, success_count, last_failure_time, config, now,
                   ccall, lastFailAt>>
    /\ CBFrame

\* half_open_circuit, lines 193-196: *state = CircuitState::HalfOpen
HalfOpenWrite(t) ==
    /\ cpc[t] = "half_w"
    /\ cbState' = "HalfOpen"
    /\ ccall' = [ccall EXCEPT ![t].halfOpened = TRUE]
    /\ SetPc(t, "half_sc")
    /\ UNCHANGED <<failure_count, success_count, last_failure_time, config, now,
                   lastFailAt>>
    /\ CBFrame

\* half_open_circuit, line 197: self.success_count.store(0)
HalfOpenResetSucc(t) ==
    /\ cpc[t] = "half_sc"
    /\ success_count' = 0
    /\ SetPc(t, "read")
    /\ UNCHANGED <<cbState, failure_count, last_failure_time, config, now,
                   ccall, lastFailAt>>
    /\ CBFrame

\* call, lines 75-80 and 85: read the state; Closed and HalfOpen go on to the operation
CallRead(t) ==
    /\ cpc[t] = "read"
    /\ cbState # "Open"
    /\ ccall' = [ccall EXCEPT ![t].admitted = cbState]
    /\ SetPc(t, "invoke")
    /\ UNCHANGED <<cbState, failure_count, success_count, last_failure_time, config, now,
                   lastFailAt>>
    /\ CBFrame

\* call, lines 75-84: read the state; Open returns Err(CircuitBreakerError::CircuitOpen)
CallReject(t) ==
    /\ cpc[t] = "read"
    /\ cbState = "Open"
    /\ SetPc(t, "idle")
    /\ ccall' = [ccall EXCEPT ![t] = NoLocals]
    /\ UNCHANGED <<cbState, failure_count, success_count, last_failure_time, config, now,
                   lastFailAt>>
    /\ CBFrame

\* call, line 85: operation() is called and awaited
CallInvoke(t) ==
    /\ cpc[t] = "invoke"
    /\ SetPc(t, "await")
    /\ UNCHANGED <<cbState, failure_count, success_count, last_failure_time, config, now,
                   ccall, lastFailAt>>
    /\ CBFrame

\* call, lines 85-93: the wrapped operation completes with Ok or Err
OperationCompletes(t, ok) ==
    /\ cpc[t] = "await"
    /\ ok \/ failure_count < MaxCount
    /\ ccall' = [ccall EXCEPT ![t].ok = ok]
    /\ SetPc(t, IF ok THEN "s_read" ELSE "f_inc")
    /\ UNCHANGED <<cbState, failure_count, success_count, last_failure_time, config, now,
                   lastFailAt>>
    /\ CBFrame

\* on_success, lines 111-116: read the state and match on it
SuccessRead(t) ==
    /\ cpc[t] = "s_read"
    /\ ccall' = [ccall EXCEPT ![t].observed = cbState]
    /\ SetPc(t, CASE cbState = "HalfOpen" -> "s_inc"
                  [] cbState = "Closed" -> "s_closed_fc"
                  [] cbState = "Open" -> "s_open_fc")
    /\ UNCHANGED <<cbState, failure_count, success_count, last_failure_time, config, now,
                   lastFailAt>>
    /\ CBFrame

\* on_success, line 119: success_count >= self.config.success_threshold
ShouldCloseAbove(count) == count > config.success_threshold
ShouldClose(count) == count >= config.success_threshold

\* on_success, lines 118-121: fetch_add(1) + 1, then the threshold test
SuccessInc(t) ==
    /\ cpc[t] = "s_inc"
    /\ success_count' = success_count + 1
    /\ ccall' = [ccall EXCEPT ![t].count = success_count + 1]
    /\ SetPc(t, IF ShouldClose(success_count + 1) THEN "close_w" ELSE "ret")
    /\ UNCHANGED <<cbState, failure_count, last_failure_time, config, now, lastFailAt>>
    /\ CBFrame

\* close_circuit, lines 182-185: *state = CircuitState::Closed
CloseWrite(t) ==
    /\ cpc[t] = "close_w"
    /\ cbState' = "Closed"
    /\ SetPc(t, "close_fc")
    /\ UNCHANGED <<failure_count, success_count, last_failure_time, config, now,
                   ccall, lastFailAt>>
    /\ CBFrame

\* close_circuit, line 186: self.failure_count.store(0)
CloseResetFail(t) ==
    /\ cpc[t] = "close_fc"
    /\ failure_count' = 0
    /\ SetPc(t, "close_sc")
    /\ UNCHANGED <<cbState, success_count, last_failure_time, config, now,
                   ccall, lastFailAt>>
    /\ CBFrame

\* close_circuit, line 187: self.success_count.store(0)
CloseResetSucc(t) ==
    /\ cpc[t] = "close_sc"
    /\ success_count' = 0
    /\ SetPc(t, "ret")
    /\ UNCHANGED <<cbState, failure_count, last_failure_time, config, now,
                   ccall, lastFailAt>>
    /\ CBFrame

\* on_success, lines 123-126: Closed => self.failure_count.store(0)
SuccessClosedResetFail(t) ==
    /\ cpc[t] = "s_closed_fc"
    /\ failure_count' = 0
    /\ SetPc(t, "ret")
    /\ UNCHANGED <<cbState, success_count, last_failure_time, config, now,
                   ccall, lastFailAt>>
    /\ CBFrame

\* on_success, lines 127-129: Open => self.failure_count.store(0)
SuccessOpenResetFail(t) ==
    /\ cpc[t] = "s_open_fc"
    /\ failure_count' = 0
    /\ SetPc(t, "s_open_sc")
    /\ UNCHANGED <<cbState, success_count, last_failure_time, config, now,
                   ccall, lastFailAt>>
    /\ CBFrame

\* on_success, line 130: Open => self.success_count.store(0)
SuccessOpenResetSucc(t) ==
    /\ cpc[t] = "s_open_sc"
    /\ success_count' = 0
    /\ SetPc(t, "ret")
    /\ UNCHANGED <<cbState, failure_count, last_failure_time, config, now,
                   ccall, lastFailAt>>
    /\ CBFrame

\* on_failure, line 137: let failure_count = self.failure_count.fetch_add(1) + 1
FailureInc(t) ==
    /\ cpc[t] = "f_inc"
    /\ failure_count' = failure_count + 1
    /\ ccall' = [ccall EXCEPT ![t].count = failure_count + 1]
    /\ SetPc(t, "f_time")
    /\ UNCHANGED <<cbState, success_count, last_failure_time, config, now, lastFailAt>>
    /\ CBFrame

\* on_failure, lines 140-144: last_failure_time.store(now in whole seconds)
FailureTime(t) ==
    /\ cpc[t] = "f_time"
    /\ last_failure_time' = AsSecs(now)
    /\ lastFailAt' = now
    /\ SetPc(t, "f_read")
    /\ UNCHANGED <<cbState, failure_count, success_count, config, now, ccall>>
    /\ CBFrame

\* on_failure, lines 151-164: which observed state and count make the call open the circuit
ShouldOpenAbove(observed, count) ==
    \/ observed = "Closed" /\ count > config.failure_threshold
    \/ observed = "HalfOpen"
ShouldOpenHalfOpenOnly(observed, count) == observed = "HalfOpen"
ShouldOpenClosedOnly(observed, count) ==
    observed = "Closed" /\ count >= config.failure_threshold
ShouldOpen(observed, count) ==
    \/ observed = "Closed" /\ count >= config.failure_threshold
    \/ observed = "HalfOpen"

\* on_failure, lines 146-164: read the state and match on it
FailureRead(t) ==
    /\ cpc[t] = "f_read"
    /\ ccall' = [ccall EXCEPT ![t].observed = cbState]
    /\ SetPc(t, IF ShouldOpen(cbState, ccall[t].count) THEN "open_w" ELSE "ret")
    /\ UNCHANGED <<cbState, failure_count, success_count, last_failure_time, config, now,
                   lastFailAt>>
    /\ CBFrame

\* open_circuit, lines 169-172: *state = CircuitState::Open
OpenWrite(t) ==
    /\ cpc[t] = "open_w"
    /\ cbState' = "Open"
    /\ SetPc(t, "open_sc")
    /\ UNCHANGED <<failure_count, success_count, last_failure_time, config, now,
                   ccall, lastFailAt>>
    /\ CBFrame

\* open_circuit, line 173: self.success_count.store(0)
OpenResetSucc(t) ==
    /\ cpc[t] = "open_sc"
    /\ success_count' = 0
    /\ SetPc(t, "ret")
    /\ UNCHANGED <<cbState, failure_count, last_failure_time, config, now,
                   ccall, lastFailAt>>
    /\ CBFrame

\* call, lines 86-93: Ok(result) or Err(CircuitBreakerError::OperationFailed(error))
CallReturn(t) ==
    /\ cpc[t] = "ret"
    /\ SetPc(t, "idle")
    /\ ccall' = [ccall EXCEPT ![t] = NoLocals]
    /\ UNCHANGED <<cbState, failure_count, success_count, last_failure_time, config, now,
                   lastFailAt>>
    /\ CBFrame

\* Time passes.
Tick ==
    /\ now < MaxTime
    /\ now' = now + 1
    /\ UNCHANGED <<cbState, failure_count, success_count, last_failure_time, config,
                   cpc, ccall, lastFailAt>>
    /\ CBFrame

\* The configurations a breaker is built with: thresholds of at least 1, and timeouts
\* both below a second and of whole seconds.
Configs == [failure_threshold : 1..MaxThreshold,
            timeout_duration : 1..MaxTimeout,
            success_threshold : 1..MaxThreshold]

\* with_config, lines 56-64
CBInitWith(c) ==
    /\ cbState = "Closed"
    /\ failure_count = 0
    /\ success_count = 0
    /\ last_failure_time = 0
    /\ config = c
    /\ now = 0
    /\ cpc = [t \in Tasks |-> "idle"]
    /\ ccall = [t \in Tasks |-> NoLocals]
    /\ lastFailAt = 0

(***************************************************************************)
(* retry_with_backoff (src/src/providers/ethereum.rs).  One loop per task: *)
(* an attempt is operation() awaited under a 30 s timeout; the attempt's   *)
(* outcome, the end of a backoff sleep and the return are steps.  The      *)
(* timeout is an outcome of the attempt, not a reading of the clock.       *)
(***************************************************************************)
\* Duration::from_millis(100 * ..), line 88
BaseDelayMs == 100

Errors == {"e1", "e2"}
Values == {"v1"}
RetryArgs == 0..MaxRetries

NoResult == [kind |-> "none", val |-> "none", attempts |-> 0]

\* started: calls of operation() so far; attempts: the local `attempts` (failed attempts);
\* backoff: the last Duration slept, in ms; sleeps: the number of sleeps begun.
NoRetry == [max_retries |-> 0, attempts |-> 0, started |-> 0, backoff |-> 0,
            sleeps |-> 0, result |-> NoResult]

\* line 88: 100 * 2_u64.pow(attempts - 1) milliseconds
BackoffFromTwo(attempts) == BaseDelayMs * 2 ^ attempts
Backoff(attempts) == BaseDelayMs * 2 ^ (attempts - 1)

\* line 80: if attempts >= max_retries
BudgetSpentAbove(attempts, max_retries) == attempts > max_retries
BudgetSpentAlways(attempts, max_retries) == TRUE
BudgetSpent(attempts, max_retries) == attempts >= max_retries

\* What the other components' variables do in a step of the loop.
RetryFrame == UNCHANGED <<nonceVars, cbVars, provVars, histVars, numVars, failVars>>

\* lines 74-76: attempts = 0; the loop's first operation() is called
RetryLocalsNotCalled(max_retries) == [NoRetry EXCEPT !.max_retries = max_retries]
RetryLocals(max_retries) == [NoRetry EXCEPT !.max_retries = max_retries, !.started = 1]

\* retry_with_backoff(operation, max_retries, name) called on its own
RetryBegin(t, max_retries) ==
    /\ rpc[t] = "idle"
    /\ pstack[t] = <<>>
    /\ rpc' = [rpc EXCEPT ![t] = "attempt"]
    /\ rcall' = [rcall EXCEPT ![t] = RetryLocals(max_retries)]
    /\ RetryFrame

\* line 77: Ok(Ok(result)) => return Ok(result)
AttemptOk(t, v) ==
    /\ rpc[t] = "attempt"
    /\ rpc' = [rpc EXCEPT ![t] = "done"]
    /\ rcall' = [rcall EXCEPT ![t].result =
                     [kind |-> "Ok", val |-> v, attempts |-> rcall[t].attempts]]
    /\ RetryFrame

\* lines 78-94: Ok(Err(e)) => attempts += 1; return the aggregate error when the budget
\* is spent, else sleep Backoff(attempts)
AttemptErr(t, e) ==
    /\ rpc[t] = "attempt"
    /\ LET attempts == rcall[t].attempts + 1
       IN IF BudgetSpent(attempts, rcall[t].max_retries)
          THEN /\ rpc' = [rpc EXCEPT ![t] = "done"]
               /\ rcall' = [rcall EXCEPT ![t].attempts = attempts,
                                         ![t].result = [kind |-> "FailedAfter", val |-> e,
                                                        attempts |-> attempts]]
          ELSE /\ rpc' = [rpc EXCEPT ![t] = "backoff"]
               /\ rcall' = [rcall EXCEPT ![t].attempts = attempts,
                                         ![t].backoff = Backoff(attempts),
                                         ![t].sleeps = @ + 1]
    /\ RetryFrame

\* lines 95-97: Err(_) => return Err("Operation '{}' timed out")
AttemptTimeout(t) ==
    /\ rpc[t] = "attempt"
    /\ rpc' = [rpc EXCEPT ![t] = "done"]
    /\ rcall' = [rcall EXCEPT ![t].result =
                     [kind |-> "TimedOut", val |-> "none", attempts |-> rcall[t].attempts]]
    /\ RetryFrame

\* line 93 and line 76: the sleep ends and the loop calls operation() again
BackoffDone(t) ==
    /\ rpc[t] = "backoff"
    /\ rpc' = [rpc EXCEPT ![t] = "attempt"]
    /\ rcall' = [rcall EXCEPT ![t].started = @ + 1]
    /\ RetryFrame

\* the caller of retry_with_backoff takes the result
RetryReturn(t) ==
    /\ rpc[t] = "done"
    /\ pstack[t] = <<>>
    /\ rpc' = [rpc EXCEPT ![t] = "idle"]
    /\ rcall' = [rcall EXCEPT ![t] = NoRetry]
    /\ RetryFrame

RetryInit ==
    /\ rpc = [t \in Tasks |-> "idle"]
    /\ rcall = [t \in Tasks |-> NoRetry]

RetryStep(t) ==
    \/ \E v \in Values : AttemptOk(t, v)
    \/ \E e \in Errors : AttemptErr(t, e)
    \/ AttemptTimeout(t)
    \/ BackoffDone(t)

RetryNext ==
    \E t \in Tasks :
        \/ \E m \in RetryArgs : RetryBegin(t, m)
        \/ RetryStep(t)
        \/ RetryReturn(t)

\* No sequence of whole calls has begun, no conversion is being computed and no
\* provider is being created.
NoNum == [fn |-> "none"]
NoFailover == [pc |-> "none"]
AuxIdle ==
    /\ failRun = 0
    /\ maxRun = 0
    /\ failedCalls = 0
    /\ numCall = NoNum
    /\ numRet = NoNum
    /\ failover = NoFailover

ProvInitIdle ==
    /\ max_concurrent_requests = 1
    /\ permits = 1
    /\ waitq = <<>>
    /\ pstack = [t \in Tasks |-> <<>>]

(***************************************************************************)
(* AlloyEthereumProvider (src/src/providers/ethereum.rs).  A task is       *)
(* inside a stack of provider operations: simulate_swap calls              *)
(* get_token_decimals and get_gas_price, each of which asks the request    *)
(* semaphore for a permit of its own.  A step is what a task does between  *)
(* two awaits; the breaker's bookkeeping, which has no await inside, is    *)
(* done within the step that reaches it (its interleavings are SpecCB's    *)
(* subject).  The 10 s acquisition timeout is an event of a waiting task,  *)
(* not a reading of the clock.                                             *)
(***************************************************************************)
\* get_eth_balance, line 188: retry_with_backoff(.., 3, "get_eth_balance")
BalanceRetries == 3

\* The operations a client calls, and the ones called from inside another.
TopOps == {"get_eth_balance", "get_token_decimals", "get_gas_price", "health_check",
           "simulate_swap"}

\* get_token_price(token, ..) is two operations here: "get_token_price" for a token
\* other than WETH and "get_token_price_weth" for WETH (the test of line 270).
PriceOps == {"get_token_price", "get_token_price_weth"}

\* health_check (lines 464-473) is the one operation without let _permit = ..;
\* fetch_eth_usd_price (lines 153-166) is a function of the provider that the closure
\* of get_token_price calls: it takes no permit and does not go through the breaker
UsesPermit(op) == op \notin {"health_check", "fetch_eth_usd_price"}
\* simulate_swap (lines 329-410) is the one operation without execute_with_circuit
UsesBreaker(op) == op \notin {"simulate_swap", "fetch_eth_usd_price"}

\* What an operation awaits, in order: an external call of the RPC provider, another
\* provider operation, or a retry loop around an external call.  fatal: the step's
\* error ends the operation (`?`); otherwise it is dropped (.ok(), unwrap_or).
Ext(fatal) == [kind |-> "ext", op |-> "none", fatal |-> fatal]
Sub(op, fatal) == [kind |-> "call", op |-> op, fatal |-> fatal]
Retried == [kind |-> "retry", op |-> "none", fatal |-> TRUE]
\* feed.latestRoundData().call().await? (line 156): an external call whose answer the
\* body tests
Feed == [kind |-> "feed", op |-> "none", fatal |-> TRUE]

\* lines 287-297 and 308-320: the error of the quoter's call is matched, not returned
QuoterStepFatal == Ext(TRUE)
QuoterStep == Ext(FALSE)

Script(op) ==
    CASE op = "get_eth_balance" -> <<Retried>>
      [] op = "get_token_decimals" -> <<Ext(TRUE)>>
      [] op = "get_gas_price" -> <<Ext(TRUE)>>
      [] op = "health_check" -> <<Ext(TRUE)>>
      [] op = "simulate_swap" ->
             <<Sub("get_token_decimals", TRUE), Ext(TRUE), Sub("get_token_decimals", TRUE),
               Ext(FALSE), Sub("get_gas_price", FALSE), Ext(TRUE)>>
      [] op = "fetch_eth_usd_price" -> <<Feed, Ext(TRUE)>>
      [] op = "get_token_price_weth" -> <<Sub("fetch_eth_usd_price", FALSE)>>
      [] op = "get_token_price" ->
             <<Sub("fetch_eth_usd_price", FALSE), Sub("get_token_decimals", TRUE),
               QuoterStep>>

\* anyhow::Error values: an external call's error, retry_with_backoff's two errors,
\* acquire_permit's error and execute_with_circuit's error.
NoErr == [tag |-> "none", of |-> "none", n |-> 0]
ExtErr(e) == [tag |-> "ext", of |-> e, n |-> 0]
FailedAfterErr(e, n) == [tag |-> "failed_after", of |-> e, n |-> n]
TimedOutErr == [tag |-> "timed_out", of |-> "none", n |-> 0]
OverloadedErr == [tag |-> "overloaded", of |-> "none", n |-> 0]
CircuitOpenErr(op) == [tag |-> "circuit_open", of |-> op, n |-> 0]
\* lines 158-160: "Chainlink price feed returned non-positive value"
NonPositiveErr == [tag |-> "non_positive", of |-> "none", n |-> 0]

NoRes == [kind |-> "none", val |-> "none", err |-> NoErr]
OkRes(v) == [kind |-> "Ok", val |-> v, err |-> NoErr]
ErrRes(e) == [kind |-> "Err", val |-> "none", err |-> e]

\* lines 77, 81-86, 96: what retry_with_backoff returns
RetryResult(r) ==
    CASE r.kind = "Ok" -> OkRes(r.val)
      [] r.kind = "FailedAfter" -> ErrRes(FailedAfterErr(r.val, r.attempts))
      [] r.kind = "TimedOut" -> ErrRes(TimedOutErr)

\* circuit_breaker.rs lines 75-78: the read guard lives in a block that ends before the
\* match, so no guard of the state lock is alive when operation() is awaited
GuardsKeptThroughMatch == {"state"}
GuardsAfterRead == {}

\* One provider operation a task is inside.
\*   pc:      "enter"  holding what it needs, about to go through the breaker
\*            "wait"   queued in request_semaphore.acquire()
\*            "run"    between two awaited steps of its body
\*            "op"     awaiting an external call
\*            "retry"  awaiting retry_with_backoff
\*            "nested" awaiting another provider operation
\*            "ret"    returning res
\*   permit:  it holds a SemaphorePermit (_permit)
\*   invoked: the breaker called its operation()
\*   step:    the step of Script(op) it is at, 0 before the body is entered
\*   guards:  the lock guards alive in its call of CircuitBreaker::call
\*   val:     the value of the last step awaited ("none": its error was dropped)
\*   eth_usd_price: that local of get_token_price's closure (line 269), once set
\*   opres:   what operation() returned; cbres: what CircuitBreaker::call returned
NewFrame(op) ==
    [op |-> op, pc |-> "enter", permit |-> FALSE, step |-> 0, invoked |-> FALSE,
     guards |-> {}, val |-> "none", eth_usd_price |-> "unset", opres |-> NoRes,
     cbres |-> NoRes, res |-> NoRes]

Depth(t) == Len(pstack[t])
Top(t) == pstack[t][Depth(t)]
At(t, p) == Depth(t) > 0 /\ Top(t).pc = p
WithTop(stack, f) == [stack EXCEPT ![Len(stack)] = f]
SetTop(t, f) == pstack' = [pstack EXCEPT ![t] = WithTop(@, f)]

\* What the breaker's variables become in a step's bookkeeping.
Breaker == [st |-> cbState, fc |-> failure_count, sc |-> success_count,
            lft |-> last_failure_time, lfa |-> lastFailAt]

SetBreaker(b) ==
    /\ cbState' = b.st
    /\ failure_count' = b.fc
    /\ success_count' = b.sc
    /\ last_failure_time' = b.lft
    /\ lastFailAt' = b.lfa

\* update_state and half_open_circuit, circuit_breaker.rs lines 193-219
AfterUpdateState(b) ==
    IF b.st = "Open" /\ TimeoutElapsed(now, b.lft)
    THEN [b EXCEPT !.st = "HalfOpen", !.sc = 0]
    ELSE b

\* on_success and close_circuit, circuit_breaker.rs lines 110-133 and 181-190
AfterSuccessKeepsCount(b) ==
    IF b.st = "HalfOpen" /\ ShouldClose(b.sc + 1)
    THEN [b EXCEPT !.st = "Closed", !.fc = 0, !.sc = 0]
    ELSE IF b.st = "HalfOpen" THEN [b EXCEPT !.sc = b.sc + 1] ELSE b
AfterSuccess(b) ==
    CASE b.st = "HalfOpen" ->
             IF ShouldClose(b.sc + 1)
             THEN [b EXCEPT !.st = "Closed", !.fc = 0, !.sc = 0]
             ELSE [b EXCEPT !.sc = b.sc + 1]
      [] b.st = "Closed" -> [b EXCEPT !.fc = 0]
      [] b.st = "Open" -> [b EXCEPT !.fc = 0, !.sc = 0]

\* on_failure and open_circuit, circuit_breaker.rs lines 136-178
AfterFailure(b) ==
    LET c == [b EXCEPT !.fc = b.fc + 1, !.lft = AsSecs(now), !.lfa = now]
    IN IF ShouldOpen(b.st, b.fc + 1) THEN [c EXCEPT !.st = "Open", !.sc = 0] ELSE c

\* circuit_breaker.rs lines 80-94: what call returns
CallResultBlank(invoked, opres) ==
    IF ~invoked THEN [kind |-> "CircuitOpen", val |-> "none", err |-> NoErr]
    ELSE IF opres.kind = "Ok" THEN [kind |-> "Ok", val |-> opres.val, err |-> NoErr]
    ELSE [kind |-> "OperationFailed", val |-> "none", err |-> NoErr]
CallResult(invoked, opres) ==
    IF ~invoked THEN [kind |-> "CircuitOpen", val |-> "none", err |-> NoErr]
    ELSE IF opres.kind = "Ok" THEN [kind |-> "Ok", val |-> opres.val, err |-> NoErr]
    ELSE [kind |-> "OperationFailed", val |-> "none", err |-> opres.err]

\* execute_with_circuit, lines 107-115: CircuitOpen becomes an error naming the
\* operation; OperationFailed(e) becomes e; Ok(v) stays
CircuitResult(op, cbres) ==
    CASE cbres.kind = "CircuitOpen" -> ErrRes(CircuitOpenErr(op))
      [] cbres.kind = "OperationFailed" -> ErrRes(cbres.err)
      [] cbres.kind = "Ok" -> OkRes(cbres.val)

\* What the other components' variables do in a step of the provider.
ProvFrame == UNCHANGED <<nonceVars, config, now, cpc, ccall, histVars, numVars, failVars>>
BreakerUntouched ==
    UNCHANGED <<cbState, failure_count, success_count, last_failure_time, lastFailAt>>

\* tokio Semaphore::acquire: a permit is taken at once when one is available
PermitAlways == TRUE
PermitAvailable == permits > 0

\* tokio Semaphore, on the drop of a permit: the oldest queued acquire() gets it
GrantToNone(q) == NoTask
GrantTo(q) == IF q # <<>> THEN Head(q) ELSE NoTask

\* let _permit = ..: the permit is dropped when the operation's future ends, whatever
\* it returns
ReleasesOnOk(f) == f.permit /\ f.res.kind = "Ok"
ReleasesOnReturn(f) == f.permit

\* lines 58-63 and the first line of each operation: task t enters operation op on top
\* of stack; it takes a permit, or queues for one, or (health_check) needs none
Admit(t, op, stack) ==
    IF ~UsesPermit(op)
    THEN /\ pstack' = [pstack EXCEPT ![t] = Append(stack, NewFrame(op))]
         /\ UNCHANGED <<permits, waitq>>
    ELSE IF PermitAvailable
    THEN /\ pstack' = [pstack EXCEPT ![t] =
                           Append(stack, [NewFrame(op) EXCEPT !.permit = TRUE])]
         /\ permits' = permits - 1
         /\ UNCHANGED waitq
    ELSE /\ pstack' = [pstack EXCEPT ![t] =
                           Append(stack, [NewFrame(op) EXCEPT !.pc = "wait"])]
         /\ waitq' = Append(waitq, t)
         /\ UNCHANGED permits

\* a client calls a provider operation
Call(t, op) ==
    /\ Depth(t) = 0
    /\ rpc[t] = "idle"
    /\ Admit(t, op, <<>>)
    /\ BreakerUntouched
    /\ UNCHANGED <<max_concurrent_requests, retryVars>>
    /\ ProvFrame

\* line 59: timeout(Duration::from_secs(10), ..) elapses on a queued acquire();
\* line 61 and the `?`: the operation returns the overloaded error
AcquireTimeout(t) ==
    /\ At(t, "wait")
    /\ waitq' = SelectSeq(waitq, LAMBDA u : u # t)
    /\ SetTop(t, [Top(t) EXCEPT !.pc = "ret", !.res = ErrRes(OverloadedErr)])
    /\ BreakerUntouched
    /\ UNCHANGED <<max_concurrent_requests, permits, retryVars>>
    /\ ProvFrame

\* execute_with_circuit and CircuitBreaker::call up to operation(): update_state, the
\* read of the state, and either the rejection or the call of operation();
\* simulate_swap goes straight into its body
EnterCircuit(t) ==
    /\ At(t, "enter")
    /\ LET f == Top(t)
           b == AfterUpdateState(Breaker)
       IN IF ~UsesBreaker(f.op)
          THEN /\ SetTop(t, [f EXCEPT !.pc = "run", !.step = 1])
               /\ BreakerUntouched
          ELSE /\ SetBreaker(b)
               /\ IF b.st = "Open"
                  THEN LET r == CallResult(FALSE, NoRes)
                       IN SetTop(t, [f EXCEPT !.pc = "ret", !.cbres = r,
                                              !.res = CircuitResult(f.op, r)])
                  ELSE SetTop(t, [f EXCEPT !.pc = "run", !.step = 1, !.invoked = TRUE,
                                           !.guards = GuardsAfterRead])
    /\ UNCHANGED <<max_concurrent_requests, permits, waitq, retryVars>>
    /\ ProvFrame

\* The body has a step left to do.
Running(t) ==
    /\ At(t, "run")
    /\ Top(t).opres.kind # "Err"
    /\ Top(t).step <= Len(Script(Top(t).op))

CurStep(f) == Script(f.op)[f.step]

\* the body reaches an external call of the RPC provider and awaits it
StartExt(t) ==
    /\ Running(t)
    /\ CurStep(Top(t)).kind \in {"ext", "feed"}
    /\ SetTop(t, [Top(t) EXCEPT !.pc = "op"])
    /\ BreakerUntouched
    /\ UNCHANGED <<max_concurrent_requests, permits, waitq, retryVars>>
    /\ ProvFrame

\* the body calls another provider operation and awaits it
StartNested(t) ==
    /\ Running(t)
    /\ CurStep(Top(t)).kind = "call"
    /\ Admit(t, CurStep(Top(t)).op, WithTop(pstack[t], [Top(t) EXCEPT !.pc = "nested"]))
    /\ BreakerUntouched
    /\ UNCHANGED <<max_concurrent_requests, retryVars>>
    /\ ProvFrame

\* get_eth_balance, lines 177-190: the body is retry_with_backoff(.., 3, ..)
StartRetry(t) ==
    /\ Running(t)
    /\ CurStep(Top(t)).kind = "retry"
    /\ SetTop(t, [Top(t) EXCEPT !.pc = "retry"])
    /\ rpc' = [rpc EXCEPT ![t] = "attempt"]
    /\ rcall' = [rcall EXCEPT ![t] = RetryLocals(BalanceRetries)]
    /\ BreakerUntouched
    /\ UNCHANGED <<max_concurrent_requests, permits, waitq>>
    /\ ProvFrame

\* The body gets the result r of the step it awaited: a fatal step's error ends the
\* body, any other result moves it to the next step.
\* line 157: latest.answer <= I256::ZERO
AnswerRejectedNever(v) == FALSE
AnswerRejected(v) == v = "nonpositive"

Deliver(f, r) ==
    IF r.kind = "Err" /\ CurStep(f).fatal
    THEN [f EXCEPT !.pc = "run", !.opres = r]
    ELSE IF r.kind = "Ok" /\ CurStep(f).kind = "feed" /\ AnswerRejected(r.val)
    THEN [f EXCEPT !.pc = "run", !.val = r.val, !.opres = ErrRes(NonPositiveErr)]
    ELSE [f EXCEPT !.pc = "run", !.step = f.step + 1,
                   !.val = IF r.kind = "Ok" THEN r.val ELSE "none",
                   !.eth_usd_price =
                       IF CurStep(f).op # "fetch_eth_usd_price" THEN f.eth_usd_price
                       ELSE IF r.kind = "Ok" THEN "Some" ELSE "None"]

ExtOutcomes == {OkRes(v) : v \in Values} \cup {ErrRes(ExtErr(e)) : e \in Errors}
\* latestRoundData(): an answer above 0, an answer of 0 or less, or an error
FeedOutcomes ==
    {OkRes("positive"), OkRes("nonpositive")} \cup {ErrRes(ExtErr(e)) : e \in Errors}
OutcomesOf(step) == IF step.kind = "feed" THEN FeedOutcomes ELSE ExtOutcomes

\* struct TokenPrice (types/mod.rs): price_eth is "0", "1" or "quoted"; price_usd is
\* "None" or "Some"
TokenPrice(price_eth, price_usd, source) ==
    [price_eth |-> price_eth, price_usd |-> price_usd, source |-> source]

\* The value a body returns after its last step.  get_token_price: lines 271-276 for
\* WETH, lines 298-307 when the quoter answered (eth_usd_price.map(..) keeps None) and
\* lines 314-319 when it failed.
BodyValue(f) ==
    CASE f.op = "get_token_price_weth" -> TokenPrice("1", f.eth_usd_price, "direct_weth")
      [] f.op = "get_token_price" ->
             IF f.val = "none"
             THEN TokenPrice("0", "None", "fallback_unavailable")
             ELSE TokenPrice("quoted", f.eth_usd_price, "uniswap_v3_fee")
      [] OTHER -> IF Len(Script(f.op)) = 1 THEN f.val ELSE "composite"

\* the external call completes
ExtCompletes(t, r) ==
    /\ At(t, "op")
    /\ r \in OutcomesOf(CurStep(Top(t)))
    /\ SetTop(t, Deliver(Top(t), r))
    /\ BreakerUntouched
    /\ UNCHANGED <<max_concurrent_requests, permits, waitq, retryVars>>
    /\ ProvFrame

\* retry_with_backoff returns to get_eth_balance's closure
RetryTaken(t) ==
    /\ At(t, "retry")
    /\ rpc[t] = "done"
    /\ SetTop(t, Deliver(Top(t), RetryResult(rcall[t].result)))
    /\ rpc' = [rpc EXCEPT ![t] = "idle"]
    /\ rcall' = [rcall EXCEPT ![t] = NoRetry]
    /\ BreakerUntouched
    /\ UNCHANGED <<max_concurrent_requests, permits, waitq>>
    /\ ProvFrame

\* the body ends, with an error or after its last step; CircuitBreaker::call (lines
\* 85-93) records the outcome and execute_with_circuit maps what call returns
BodyEnd(t) ==
    /\ At(t, "run")
    /\ ~Running(t)
    /\ LET f == Top(t)
           r == IF f.opres.kind = "Err" THEN f.opres
                ELSE OkRes(BodyValue(f))
       IN IF ~UsesBreaker(f.op)
          THEN /\ SetTop(t, [f EXCEPT !.pc = "ret", !.opres = r, !.res = r])
               /\ BreakerUntouched
          ELSE /\ SetBreaker(IF r.kind = "Ok" THEN AfterSuccess(Breaker)
                             ELSE AfterFailure(Breaker))
               /\ SetTop(t, [f EXCEPT !.pc = "ret", !.opres = r,
                                      !.cbres = CallResult(f.invoked, r),
                                      !.res = CircuitResult(f.op, CallResult(f.invoked, r))])
    /\ UNCHANGED <<max_concurrent_requests, permits, waitq, retryVars>>
    /\ ProvFrame

\* the operation returns: its _permit is dropped, and goes to the oldest queued acquire()
\* if there is one; the caller, if it is another operation, gets the result
Return(t) ==
    /\ At(t, "ret")
    /\ LET f == Top(t)
           rest == SubSeq(pstack[t], 1, Depth(t) - 1)
           h == IF ReleasesOnReturn(f) THEN GrantTo(waitq) ELSE NoTask
       IN /\ permits' = IF ReleasesOnReturn(f) /\ h = NoTask THEN permits + 1 ELSE permits
          /\ waitq' = IF h # NoTask THEN Tail(waitq) ELSE waitq
          /\ pstack' = [u \in Tasks |->
                 IF u = t
                 THEN IF rest = <<>> THEN <<>>
                      ELSE WithTop(rest, Deliver(rest[Len(rest)], f.res))
                 ELSE IF u = h
                 THEN WithTop(pstack[u], [Top(u) EXCEPT !.pc = "enter", !.permit = TRUE])
                 ELSE pstack[u]]
    /\ BreakerUntouched
    /\ UNCHANGED <<max_concurrent_requests, retryVars>>
    /\ ProvFrame

ProvStep(t) ==
    \/ \E op \in TopOps : Call(t, op)
    \/ AcquireTimeout(t)
    \/ EnterCircuit(t)
    \/ StartExt(t)
    \/ StartNested(t)
    \/ StartRetry(t)
    \/ \E r \in ExtOutcomes : ExtCompletes(t, r)
    \/ RetryTaken(t)
    \/ BodyEnd(t)
    \/ Return(t)

\* Any number of clients call the provider at once; time passes.
ProvNext ==
    \/ \E t \in Tasks : ProvStep(t) \/ RetryStep(t)
    \/ Tick

\* AlloyEthereumProvider::new, lines 122-151: the semaphore has max_concurrent_requests
\* permits, the breaker is Closed with zeroed counters.  The breaker's thresholds and
\* timeout are scaled to the bounds of the model.
ProvInit ==
    /\ NonceInit
    /\ CBInitWith([failure_threshold |-> MaxThreshold, timeout_duration |-> TicksPerSec,
                   success_threshold |-> 1])
    /\ RetryInit
    /\ max_concurrent_requests \in 1..MaxPermits
    /\ permits = max_concurrent_requests
    /\ waitq = <<>>
    /\ pstack = [t \in Tasks |-> <<>>]
    /\ AuxIdle

SpecProvider == ProvInit /\ [][ProvNext]_vars

\* Clients call get_token_price at once, for WETH and for other tokens.
PriceStep(t) ==
    \/ \E op \in PriceOps : Call(t, op)
    \/ AcquireTimeout(t)
    \/ EnterCircuit(t)
    \/ StartExt(t)
    \/ StartNested(t)
    \/ \E r \in ExtOutcomes \cup FeedOutcomes : ExtCompletes(t, r)
    \/ BodyEnd(t)
    \/ Return(t)

PriceNext ==
    \/ \E t \in Tasks : PriceStep(t)
    \/ Tick

SpecPrice == ProvInit /\ [][PriceNext]_vars

\* Every step of a call after its start, but for on_success finding the breaker Open.
CBStep(t) ==
    \/ UpdateCheck(t)
    \/ HalfOpenWrite(t)
    \/ HalfOpenResetSucc(t)
    \/ CallRead(t)
    \/ CallReject(t)
    \/ CallInvoke(t)
    \/ \E ok \in BOOLEAN : OperationCompletes(t, ok)
    \/ SuccessRead(t)
    \/ SuccessInc(t)
    \/ CloseWrite(t)
    \/ CloseResetFail(t)
    \/ CloseResetSucc(t)
    \/ SuccessClosedResetFail(t)
    \/ FailureInc(t)
    \/ FailureTime(t)
    \/ FailureRead(t)
    \/ OpenWrite(t)
    \/ OpenResetSucc(t)
    \/ CallReturn(t)

\* on_success's Open arm ("should not happen"): taken only when another call opened the
\* breaker while this call's operation ran, so never when calls are made one at a time.
CBStaleStep(t) ==
    \/ SuccessOpenResetFail(t)
    \/ SuccessOpenResetSucc(t)

AllIdle == \A t \in Tasks : cpc[t] = "idle"

\* Any number of calls in flight at once.
CBNext ==
    \/ \E t \in Tasks : CallStart(t) \/ CBStep(t) \/ CBStaleStep(t)
    \/ Tick

\* Calls made one at a time: a call starts only when no other is in flight.
CBNextSeq ==
    \/ \E t \in Tasks : (AllIdle /\ CallStart(t)) \/ CBStep(t)
    \/ Tick

CBInit == \E c \in Configs : CBInitWith(c)

Init == NonceInit /\ CBInit /\ RetryInit /\ ProvInitIdle /\ AuxIdle

\* NonceManager does not read the breaker: one configuration stands for all.
InitNonce ==
    /\ NonceInit
    /\ CBInitWith([failure_threshold |-> 1, timeout_duration |-> 1, success_threshold |-> 1])
    /\ RetryInit
    /\ ProvInitIdle
    /\ AuxIdle

SpecNonce == InitNonce /\ [][NonceNext]_vars

SpecCB == Init /\ [][CBNext]_vars

SpecCBSeq == Init /\ [][CBNextSeq]_vars

\* Calls made one at a time, for ever: the runtime runs every task that can take a step,
\* callers keep calling, and the clock runs to the end of the modelled run.
CBSeqFairness ==
    /\ \A t \in Tasks : WF_vars(CBStep(t))
    /\ WF_vars(\E t \in Tasks : AllIdle /\ CallStart(t))
    /\ WF_vars(Tick)

SpecCBSeqLive == Init /\ [][CBNextSeq]_vars /\ CBSeqFairness

\* retry_with_backoff does not read the breaker or the nonce table.
InitRetry == InitNonce

SpecRetry == InitRetry /\ [][RetryNext]_vars

\* An attempt ends within the 30 s of its timeout (line 76) and a sleep ends when its
\* Duration has passed (line 93): a loop that can take a step takes one.
RetryFairness == \A t \in Tasks : WF_vars(RetryStep(t))
SpecRetryLive == InitRetry /\ [][RetryNext]_vars /\ RetryFairness

(***************************************************************************)
(* Numbers.  U256, u64 and the 96-bit mantissa of rust_decimal's Decimal   *)
(* are beyond the integers of the model checker, so a natural number is    *)
(* the sequence of its decimal digits, most significant first, without     *)
(* leading zeros (<<>> is 0).                                              *)
(***************************************************************************)
RECURSIVE StripLeading(_)
StripLeading(a) == IF a # <<>> /\ Head(a) = 0 THEN StripLeading(Tail(a)) ELSE a

Zeros(n) == [i \in 1..n |-> 0]

RECURSIVE FromNat(_)
FromNat(n) == IF n = 0 THEN <<>> ELSE Append(FromNat(n \div 10), n % 10)

\* the digit of weight 10^(i-1)
DigitAt(a, i) == IF i <= Len(a) THEN a[Len(a) + 1 - i] ELSE 0

RECURSIVE LexLess(_, _)
LexLess(a, b) ==
    /\ a # <<>>
    /\ \/ Head(a) < Head(b)
       \/ Head(a) = Head(b) /\ LexLess(Tail(a), Tail(b))

BigLess(a, b) == Len(a) < Len(b) \/ (Len(a) = Len(b) /\ LexLess(a, b))
BigLeq(a, b) == a = b \/ BigLess(a, b)

Reverse(a) == [i \in 1..Len(a) |-> a[Len(a) + 1 - i]]

\* Sums and products are made four digits at a time.  ChunkAt: the number made of the
\* four digits of a from the i-th on; DigitsOf: the four digits of v < 10^4, least
\* significant first.
ChunkAt(a, i) ==
    DigitAt(a, i) + 10 * DigitAt(a, i + 1) + 100 * DigitAt(a, i + 2)
        + 1000 * DigitAt(a, i + 3)
DigitsOf(v) == <<v % 10, (v \div 10) % 10, (v \div 100) % 10, (v \div 1000) % 10>>

\* The digits of a + b + carry from the i-th on, least significant first
RECURSIVE AddFrom(_, _, _, _)
AddFrom(a, b, i, carry) ==
    IF i > Len(a) /\ i > Len(b)
    THEN IF carry = 0 THEN <<>> ELSE <<carry>>
    ELSE LET s == ChunkAt(a, i) + ChunkAt(b, i) + carry
         IN DigitsOf(s % 10000) \o AddFrom(a, b, i + 4, s \div 10000)

BigAdd(a, b) == StripLeading(Reverse(AddFrom(a, b, 1, 0)))

\* The digits of a - b - borrow from the i-th on, least significant first
RECURSIVE SubFrom(_, _, _, _)
SubFrom(a, b, i, borrow) ==
    IF i > Len(a) THEN <<>>
    ELSE LET d == ChunkAt(a, i) - ChunkAt(b, i) - borrow
         IN IF d < 0
            THEN DigitsOf(d + 10000) \o SubFrom(a, b, i + 4, 1)
            ELSE DigitsOf(d) \o SubFrom(a, b, i + 4, 0)

\* a - b, for a >= b
BigSub(a, b) == StripLeading(Reverse(SubFrom(a, b, 1, 0)))

\* The digits of a * k + carry from the i-th on, least significant first, for k < 10^4
RECURSIVE MulDigitFrom(_, _, _, _)
MulDigitFrom(a, k, i, carry) ==
    IF i > Len(a)
    THEN Reverse(FromNat(carry))
    ELSE LET s == ChunkAt(a, i) * k + carry
         IN DigitsOf(s % 10000) \o MulDigitFrom(a, k, i + 4, s \div 10000)

BigMulDigit(a, k) == StripLeading(Reverse(MulDigitFrom(a, k, 1, 0)))

\* a * 10^n
Shift(a, n) == IF a = <<>> THEN <<>> ELSE a \o Zeros(n)

\* a * b, by four digits of b at a time from its first: acc is a times the digits of b
\* before the i-th
RECURSIVE MulFrom(_, _, _, _)
MulFrom(a, b, i, acc) ==
    IF i > Len(b) THEN acc
    ELSE LET w == IF Len(b) - i + 1 >= 4 THEN 4 ELSE Len(b) - i + 1
             next == BigAdd(Shift(acc, w), BigMulDigit(a, ChunkAt(SubSeq(b, i, i + w - 1), 1)))
         IN IF next = <<>> THEN MulFrom(a, b, i + w, <<>>) ELSE MulFrom(a, b, i + w, next)

BigMul(a, b) == IF a = <<>> \/ b = <<>> THEN <<>> ELSE MulFrom(a, b, 1, <<>>)

DivTen(a) == IF a = <<>> THEN <<>> ELSE SubSeq(a, 1, Len(a) - 1)
ModTen(a) == IF a = <<>> THEN 0 ELSE a[Len(a)]

Pow10(n) == <<1>> \o Zeros(n)

\* 2^64 = 18446744073709551616: u64 holds the naturals below it
U64Limit == <<1, 8, 4, 4, 6, 7, 4, 4, 0, 7, 3, 7, 0, 9, 5, 5, 1, 6, 1, 6>>

\* 2^96 - 1 = 79228162514264337593543950335: the largest mantissa of a Decimal
Dec96Max == <<7, 9, 2, 2, 8, 1, 6, 2, 5, 1, 4, 2, 6, 4, 3, 3, 7, 5, 9, 3, 5, 4, 3, 9, 5, 0, 3, 3, 5>>

\* the largest scale of a Decimal (rust_decimal: 28 digits after the point)
DecMaxScale == 28

RECURSIVE ModU64(_)
ModU64(a) == IF BigLess(a, U64Limit) THEN a ELSE ModU64(BigSub(a, U64Limit))

\* 10^n mod 2^64, from acc = 10^k mod 2^64: what wrapping multiplication leaves of
\* 10_u64.pow(n).  Once a power is 0 modulo 2^64 the next ones are.
RECURSIVE WrappedFrom(_, _, _)
WrappedFrom(k, n, acc) ==
    IF k = n \/ acc = <<>> THEN acc
    ELSE WrappedFrom(k + 1, n, ModU64(Shift(acc, 1)))

WrappedPow10(n) == WrappedFrom(0, n, <<1>>)

(***************************************************************************)
(* rust_decimal's Decimal: a sign, a mantissa below 2^96 and a scale of    *)
(* 0..28, standing for (-1)^neg * m / 10^scale.  The crate is not part of  *)
(* the repository; its operations are modelled from their documented      *)
(* behaviour: they are exact where the result is representable, they drop  *)
(* digits of the fraction with rounding where it is not, and they overflow *)
(* where the integer part does not fit.                                    *)
(***************************************************************************)
Dec(neg, m, scale) == [neg |-> neg, m |-> m, scale |-> scale]
DecOfNat(m) == Dec(FALSE, m, 0)

Representable(x) == BigLeq(x.m, Dec96Max) /\ x.scale \in 0..DecMaxScale

\* The digits of a but its last k.
DropLast(a, k) == SubSeq(a, 1, Len(a) - k)

\* The same number with no trailing zero after the point: k is the number of zeros
\* dropped.
DecNormal(x) ==
    IF x.m = <<>> THEN Dec(x.neg, <<>>, 0)
    ELSE LET k == CHOOSE n \in 0..x.scale :
                      /\ \A i \in 1..n : DigitAt(x.m, i) = 0
                      /\ n = x.scale \/ DigitAt(x.m, n + 1) # 0
         IN Dec(x.neg, DropLast(x.m, k), x.scale - k)

\* Decimal::fract() != Decimal::ZERO
HasFraction(x) == DecNormal(x).scale > 0

\* Decimal::trunc(): the digits before the point
DecTrunc(x) ==
    Dec(x.neg, IF Len(x.m) > x.scale THEN SubSeq(x.m, 1, Len(x.m) - x.scale) ELSE <<>>, 0)

\* Digits are dropped from the end of a product while it does not fit the mantissa (or
\* the scale) and a digit of the fraction is left: k is the number of digits dropped,
\* rem the last digit dropped.
Rescale(p, scale, rem) ==
    LET Fits(n) == n = scale \/ (BigLeq(DropLast(p, n), Dec96Max) /\ scale - n <= DecMaxScale)
        k == CHOOSE n \in 0..scale : Fits(n) /\ \A j \in 0..(n - 1) : ~Fits(j)
    IN [p |-> DropLast(p, k), scale |-> scale - k,
        rem |-> IF k = 0 THEN rem ELSE DigitAt(p, k)]

\* Decimal::checked_mul: None when the product does not fit
DecCheckedMul(a, b) ==
    IF a.m = <<>> \/ b.m = <<>>
    THEN [kind |-> "Some", val |-> Dec(FALSE, <<>>, 0)]
    ELSE LET r == Rescale(BigMul(a.m, b.m), a.scale + b.scale, 0)
             rounded == IF r.rem >= 5 THEN BigAdd(r.p, <<1>>) ELSE r.p
         IN IF BigLess(Dec96Max, rounded)
            THEN [kind |-> "None", val |-> Dec(FALSE, <<>>, 0)]
            ELSE [kind |-> "Some", val |-> Dec(a.neg # b.neg, rounded, r.scale)]

\* x / 10^n for a divisor that is a power of ten: the quotient keeps the digits of x
\* and moves the point; digits beyond the 28th after the point are rounded away
DecDivPow10Floor(x, n) == DecTrunc(Dec(x.neg, x.m, x.scale + n))
DecDivPow10(x, n) ==
    LET q == DecNormal(Dec(x.neg, x.m, x.scale + n))
        r == Rescale(q.m, q.scale, 0)
    IN Dec(q.neg, IF r.rem >= 5 THEN BigAdd(r.p, <<1>>) ELSE r.p, r.scale)

\* Decimal::ONE - y, for 0 <= y <= 1
OneMinus(y) == Dec(FALSE, BigSub(Pow10(y.scale), y.m), y.scale)

(***************************************************************************)
(* The conversions and computations of the provider and of TokenAmount.    *)
(***************************************************************************)
\* 10_u64.pow(decimals as u32), types/mod.rs lines 100 and 107: the power when it is
\* below 2^64; when it is not, a build with overflow checks panics and a build without
\* them yields the power modulo 2^64
Pow10U64(decimals) ==
    IF BigLess(Pow10(decimals), U64Limit)
    THEN {[kind |-> "value", val |-> Pow10(decimals)]}
    ELSE {[kind |-> "panic", val |-> <<>>],
          [kind |-> "value", val |-> WrappedPow10(decimals)]}

\* current_nonce + 1 and blockchain_nonce + 1 on u64, nonce_manager.rs lines 29 and 103:
\* the sum when it is below 2^64; when it is not, a build with overflow checks panics
\* and a build without them yields the sum modulo 2^64.  Below the limit this is
\* NextNonce.
AddOneU64(v) ==
    LET sum == BigAdd(v, FromNat(1))
    IN IF BigLess(sum, U64Limit)
       THEN {[kind |-> "value", val |-> sum]}
       ELSE {[kind |-> "panic", val |-> <<>>],
             [kind |-> "value", val |-> ModU64(sum)]}

\* TokenAmount::to_raw_units, types/mod.rs lines 106-115, for one outcome of the power
ToRawUnitsWith(x, decimals, pw) ==
    IF pw.kind = "panic"
    THEN [kind |-> "panic", val |-> Dec(FALSE, <<>>, 0)]
    ELSE LET r == DecCheckedMul(x, DecOfNat(pw.val))
         IN IF r.kind = "None"
            THEN [kind |-> "Overflow", val |-> Dec(FALSE, <<>>, 0)]
            ELSE [kind |-> "Ok", val |-> r.val]

ToRawUnits(x, decimals) == {ToRawUnitsWith(x, decimals, pw) : pw \in Pow10U64(decimals)}

\* TokenAmount::from_raw_units, types/mod.rs lines 99-103, for one outcome of the power.
\* Division by zero panics; the quotient by a wrapped divisor that is not a power of
\* ten is left as the fraction raw / divisor.
FromRawUnitsWith(raw, decimals, pw) ==
    IF pw.kind = "panic" \/ pw.val = <<>>
    THEN [kind |-> "panic", val |-> Dec(FALSE, <<>>, 0), over |-> <<>>]
    ELSE IF pw.val = Pow10(decimals)
    THEN [kind |-> "Ok", val |-> DecDivPow10(raw, decimals), over |-> <<1>>]
    ELSE [kind |-> "Ok", val |-> raw, over |-> pw.val]

FromRawUnits(raw, decimals) ==
    {FromRawUnitsWith(raw, decimals, pw) : pw \in Pow10U64(decimals)}

\* decimal_to_u256, ethereum.rs line 43: value.is_sign_negative() || value.fract() != 0
RejectedIfNegative(value) == value.neg
Rejected(value) == value.neg \/ HasFraction(value)

\* decimal_to_u256, ethereum.rs lines 42-50: the U256 is parsed from the digits of
\* value.trunc()
DecimalToU256(value) ==
    IF Rejected(value)
    THEN [kind |-> "Err", val |-> <<>>]
    ELSE [kind |-> "Ok", val |-> StripLeading(DecTrunc(value).m)]

\* simulate_swap, lines 366-371: the minimum output for a quoted output (a Decimal made
\* of the quoter's U256) and a slippage tolerance; an error of decimal_to_u256 is
\* returned by simulate_swap (`?`)
MinAmountOut(estimated_out, slippage) ==
    LET slippage_multiplier == OneMinus(DecDivPow10(slippage, 2))
        product == DecCheckedMul(estimated_out, slippage_multiplier)
    IN DecimalToU256(product.val)

\* get_transaction_status, lines 433-437: receipt.block_number.map_or(0, |b|
\* latest_block.saturating_sub(b) + 1)
SaturatingSub(a, b) == IF a >= b THEN a - b ELSE 0
Confirmations(block_number, latest_block) ==
    IF block_number = <<>> THEN 0 ELSE SaturatingSub(latest_block, block_number[1]) + 1

\* get_transaction_status, lines 438-442: receipt.status() picks Confirmed or Failed
StatusOfAlwaysConfirmed(success) == "Confirmed"
StatusOf(success) == IF success THEN "Confirmed" ELSE "Failed"

\* get_transaction_status, lines 432-457: receipt is <<>> (None) or <<r>>; an Option
\* is a sequence of at most one element
TransactionStatusInfo(receipt, latest_block) ==
    IF receipt # <<>>
    THEN [status |-> StatusOf(receipt[1].success),
          confirmations |-> Confirmations(receipt[1].block_number, latest_block),
          block_number |-> receipt[1].block_number]
    ELSE [status |-> "Pending", confirmations |-> 0, block_number |-> <<>>]

(***************************************************************************)
(* One call of a conversion: the call is drawn with its arguments, and a   *)
(* step computes what it returns.  from_raw_units is also applied to what  *)
(* to_raw_units returned.                                                  *)
(***************************************************************************)
\* Mantissas n * 10^k and n * 10^k + 1: small numbers, numbers about the size of
\* 10^10 (whose product with 10^18 is about 2^96), and numbers about 2^96 itself.
TenShifts == {0, 10, 28}
Mantissas ==
    {Shift(FromNat(n), k) : n \in 0..MaxAmount, k \in TenShifts}
        \cup {BigAdd(Shift(FromNat(n), k), <<1>>) : n \in 0..MaxAmount, k \in TenShifts}
ScalesDrawn == {0, 1, 18, DecMaxScale}

\* Token amounts (never negative: from_human_readable, types/mod.rs lines 91-93).
Amounts == {x \in {Dec(FALSE, m, sc) : m \in Mantissas, sc \in ScalesDrawn} : Representable(x)}
\* Any Decimal: negative ones too.
Decimals == Amounts \cup {[x EXCEPT !.neg = TRUE] : x \in {a \in Amounts : a.m # <<>>}}
\* decimals: u8
DecimalsDrawn == {0, 6, 8, 18, 19, 20, 21}
\* Quoted outputs: U256 values that fit a Decimal.
QuotedOutputs == {x \in Amounts : x.scale = 0}
\* slippage_tolerance, in percent: 0, 0.0001, 0.5, 1, 50, 100 (http.rs line 754 accepts
\* 0..100)
Slippages == {Dec(FALSE, <<>>, 0), Dec(FALSE, <<1>>, 4), Dec(FALSE, <<5>>, 1),
              Dec(FALSE, <<1>>, 0), Dec(FALSE, <<5, 0>>, 0), Dec(FALSE, <<1, 0, 0>>, 0)}
\* Block numbers: the small ones, and the 100 and 150 of test_block_number_arithmetic
Blocks == (0..MaxBlock) \cup {100, 150}
Receipts == {<<>>} \cup
    {<<[success |-> ok, block_number |-> b]>> :
         ok \in BOOLEAN, b \in {<<>>} \cup {<<n>> : n \in Blocks}}

\* Nonces: stored and observed u64 values at both ends of the range, u64::MAX included
NonceValues == {FromNat(0), FromNat(1), FromNat(MaxBlock),
                BigSub(U64Limit, FromNat(2)), BigSub(U64Limit, FromNat(1))}

NumCall(fn, x, y, n) == [fn |-> fn, x |-> x, y |-> y, n |-> n]
NumRet(fn, out) == [fn |-> fn, out |-> out]

\* The calls drawn: the call c is one of them.
NumCalls(c) ==
    \/ \E x \in Amounts, d \in DecimalsDrawn : c = NumCall("to_raw_units", x, <<>>, d)
    \/ \E x \in Decimals : c = NumCall("decimal_to_u256", x, <<>>, 0)
    \/ \E x \in QuotedOutputs, s \in Slippages : c = NumCall("min_amount_out", x, s, 0)
    \/ \E r \in Receipts, b \in Blocks : c = NumCall("transaction_status", r, <<>>, b)
    \/ \E v \in NonceValues : c = NumCall("get_next_nonce", v, <<>>, 0)
    \/ \E v \in NonceValues : c = NumCall("handle_nonce_conflict", v, <<>>, 0)

NumFrame == UNCHANGED <<nonceVars, cbVars, retryVars, provVars, histVars, failVars>>

ApplyToRawUnits ==
    /\ numCall.fn = "to_raw_units" /\ numRet.fn = "none"
    /\ \E r \in ToRawUnits(numCall.x, numCall.n) : numRet' = NumRet("to_raw_units", r)
    /\ UNCHANGED numCall
    /\ NumFrame

\* from_raw_units(raw, decimals) of the raw units to_raw_units returned
ApplyFromRawUnits ==
    /\ numCall.fn = "to_raw_units" /\ numRet.fn = "to_raw_units"
    /\ numRet.out.kind = "Ok"
    /\ numCall' = NumCall("from_raw_units", numRet.out.val, numCall.x, numCall.n)
    /\ \E r \in FromRawUnits(numRet.out.val, numCall.n) :
           numRet' = NumRet("from_raw_units", r)
    /\ NumFrame

ApplyDecimalToU256 ==
    /\ numCall.fn = "decimal_to_u256" /\ numRet.fn = "none"
    /\ numRet' = NumRet("decimal_to_u256", DecimalToU256(numCall.x))
    /\ UNCHANGED numCall
    /\ NumFrame

ApplyMinAmountOut ==
    /\ numCall.fn = "min_amount_out" /\ numRet.fn = "none"
    /\ numRet' = NumRet("min_amount_out", MinAmountOut(numCall.x, numCall.y))
    /\ UNCHANGED numCall
    /\ NumFrame

ApplyTransactionStatus ==
    /\ numCall.fn = "transaction_status" /\ numRet.fn = "none"
    /\ numRet' = NumRet("transaction_status", TransactionStatusInfo(numCall.x, numCall.n))
    /\ UNCHANGED numCall
    /\ NumFrame

\* get_next_nonce, nonce_manager.rs lines 28-38, for a stored value x: what is stored
\* and returned
ApplyGetNextNonce ==
    /\ numCall.fn = "get_next_nonce" /\ numRet.fn = "none"
    /\ \E r \in AddOneU64(numCall.x) : numRet' = NumRet("get_next_nonce", r)
    /\ UNCHANGED numCall
    /\ NumFrame

\* handle_nonce_conflict, nonce_manager.rs lines 102-103, for an observed value x: what
\* is returned
ApplyHandleNonceConflict ==
    /\ numCall.fn = "handle_nonce_conflict" /\ numRet.fn = "none"
    /\ \E r \in AddOneU64(numCall.x) : numRet' = NumRet("handle_nonce_conflict", r)
    /\ UNCHANGED numCall
    /\ NumFrame

NumNext ==
    \/ ApplyToRawUnits
    \/ ApplyFromRawUnits
    \/ ApplyDecimalToU256
    \/ ApplyMinAmountOut
    \/ ApplyTransactionStatus
    \/ ApplyGetNextNonce
    \/ ApplyHandleNonceConflict

NumInit ==
    /\ NonceInit
    /\ CBInitWith([failure_threshold |-> 1, timeout_duration |-> 1, success_threshold |-> 1])
    /\ RetryInit
    /\ ProvInitIdle
    /\ failRun = 0 /\ maxRun = 0 /\ failedCalls = 0
    /\ NumCalls(numCall)
    /\ numRet = NoNum
    /\ failover = NoFailover

SpecNum == NumInit /\ [][NumNext]_vars

(***************************************************************************)
(* ProviderFactory::create_ethereum_provider_with_failover.  What          *)
(* AlloyEthereumProvider::new does with a URL depends on the URL and on    *)
(* the node behind it; a URL is drawn together with that: "bad_url" does   *)
(* not parse, "down" fails the health check, "slow" does not answer it     *)
(* within request_timeout_seconds, "up" answers it.  URL i of the list is  *)
(* named by its position i.                                                *)
(***************************************************************************)
UrlKinds == {"bad_url", "down", "slow", "up"}
UrlLists == UNION {[1..n -> UrlKinds] : n \in 0..MaxUrls}

ProviderOf(i) == [kind |-> "Ok", provider |-> i, err |-> "none"]
NewErr(i, e) == [kind |-> "Err", provider |-> i, err |-> e]
\* anyhow!("No RPC URLs provided"), mod.rs line 120
NoUrlsErr == [kind |-> "Err", provider |-> 0, err |-> "No RPC URLs provided"]

\* AlloyEthereumProvider::new, ethereum.rs lines 122-151, for URL i of kind k: the URL
\* is parsed (line 127), then the key (line 128), then health_check runs under the
\* timeout (lines 141-146)
NewProvider(i, k, key_ok) ==
    CASE k = "bad_url" -> NewErr(i, "url does not parse")
      [] ~key_ok -> NewErr(i, "key does not parse")
      [] k = "down" -> NewErr(i, "health check failed")
      [] k = "slow" -> NewErr(i, "Provider health check timed out")
      [] OTHER -> ProviderOf(i)

\* line 115: last_err = Some(e)
LastErrKeepsFirst(last_err, e) == IF last_err = <<>> THEN <<e>> ELSE last_err
LastErr(last_err, e) == <<e>>

\* lines 104-118: the next URL of the list is tried; Ok returns its provider, Err is
\* kept as last_err and the loop goes on
FailoverTry ==
    /\ failover.pc = "loop"
    /\ failover.next <= Len(failover.rpc_urls)
    /\ LET i == failover.next
           r == NewProvider(i, failover.rpc_urls[i], failover.key_ok)
       IN failover' =
            IF r.kind = "Ok"
            THEN [failover EXCEPT !.tried = Append(@, i), !.pc = "done", !.result = r]
            ELSE [failover EXCEPT !.tried = Append(@, i), !.next = i + 1,
                                  !.last_err = LastErr(@, r)]
    /\ UNCHANGED <<nonceVars, cbVars, retryVars, provVars, histVars, numVars>>

\* line 120: the list is exhausted: Err(last_err.unwrap_or_else(|| anyhow!(..)))
FailoverExhausted ==
    /\ failover.pc = "loop"
    /\ failover.next > Len(failover.rpc_urls)
    /\ failover' = [failover EXCEPT !.pc = "done",
                        !.result = IF failover.last_err = <<>> THEN NoUrlsErr
                                   ELSE failover.last_err[1]]
    /\ UNCHANGED <<nonceVars, cbVars, retryVars, provVars, histVars, numVars>>

FailoverNext == FailoverTry \/ FailoverExhausted

\* lines 97-103: the call with its arguments; last_err = None
FailoverInit ==
    /\ NonceInit
    /\ CBInitWith([failure_threshold |-> 1, timeout_duration |-> 1, success_threshold |-> 1])
    /\ RetryInit
    /\ ProvInitIdle
    /\ failRun = 0 /\ maxRun = 0 /\ failedCalls = 0
    /\ numCall = NoNum /\ numRet = NoNum
    /\ \E urls \in UrlLists, key_ok \in BOOLEAN :
          failover = [pc |-> "loop", rpc_urls |-> urls, key_ok |-> key_ok, next |-> 1,
                      last_err |-> <<>>, tried |-> <<>>,
                      result |-> [kind |-> "none", provider |-> 0, err |-> "none"]]

SpecFailover == FailoverInit /\ [][FailoverNext]_vars

(***************************************************************************)
(* A sequence of whole calls of CircuitBreaker::call, each from its        *)
(* update_state to its return in one step, with the lengths of the runs of *)
(* consecutive failed operations kept as history.                          *)
(***************************************************************************)
MaxOf(a, b) == IF a >= b THEN a ELSE b

\* call, lines 67-96: update_state, the read of the state, and for a breaker that is
\* not Open the operation and on_success or on_failure
WholeCall(ok) ==
    /\ ok \/ failedCalls <= MaxThreshold
    /\ LET b == AfterUpdateState(Breaker)
       IN IF b.st = "Open"
          THEN /\ SetBreaker(b)
               /\ UNCHANGED histVars
          ELSE /\ SetBreaker(IF ok THEN AfterSuccess(b) ELSE AfterFailure(b))
               /\ failRun' = IF ok THEN 0 ELSE failRun + 1
               /\ maxRun' = IF ok THEN maxRun ELSE MaxOf(maxRun, failRun + 1)
               /\ failedCalls' = IF ok THEN failedCalls ELSE failedCalls + 1
    /\ UNCHANGED <<nonceVars, config, now, cpc, ccall, retryVars, provVars, numVars, failVars>>

CallsNext ==
    \/ \E ok \in BOOLEAN : WholeCall(ok)
    \/ Tick

SpecCalls == Init /\ [][CallsNext]_vars

(***************************************************************************)
(* Properties of NonceManager, checked under SpecNonce.                    *)
(***************************************************************************)
StoredNonce(w) == NonceGetOrZero(nonces, w)

\* C1: for one wallet, no nonce value is handed out to callers more than once, counting
\* the values returned by get_next_nonce and by handle_nonce_conflict.
C1_NoDoubleAllocation ==
    \A w \in Wallets : \A v \in BagToSet(issued[w]) : CopiesIn(v, issued[w]) <= 1

\* C2: the get_next_nonce calls made for a wallet since its stored value was L, with no
\* other nonce operation on it in between, returned exactly L+1 .. L+N (N of them: no
\* duplicate, no gap), and the stored value is then L+N.
C2_SequentialGapFree ==
    \A w \in Wallets :
        LET N == Len(run[w])
        IN /\ {run[w][i] : i \in 1..N} = (base[w] + 1)..(base[w] + N)
           /\ StoredNonce(w) = base[w] + N

\* Two get_next_nonce calls completed for a wallet whose stored value was L >= 1.
C2_Witness ==
    \E w \in Wallets : Len(run[w]) >= 2 /\ base[w] >= 1

\* C3: initialize_nonce(wallet, observed) leaves the wallet's current nonce at
\* max(previous, observed), the previous one being the value read on entry (0 if the
\* wallet is unseen), and leaves the table unchanged when observed <= previous.
C3_InitializeNeverDecreases ==
    [][\A t \in Tasks :
          InitCompare(t) =>
              LET w == ncall[t].wallet
                  previous == StoredNonce(w)
                  observed == ncall[t].arg
              IN /\ ncall[t].cur = previous
                 /\ NonceGetOrZero(nonces', w) = MaxOf(previous, observed)
                 /\ (observed <= previous => nonces' = nonces)]_vars

\* initialize_nonce completed with an observed value below the wallet's current nonce.
C3_Witness ==
    \E w \in Wallets :
        /\ lastOp[w].op = "initialize_nonce"
        /\ lastOp[w].arg >= 1
        /\ lastOp[w].arg < StoredNonce(w)

\* C4: handle_nonce_conflict(wallet, failed, observed) stores observed whatever was
\* stored before and whatever failed is, and returns observed + 1; a get_next_nonce
\* that follows it on that wallet returns observed + 1.
C4_ConflictResetsToObserved ==
    [][/\ \A w \in Wallets, b \in NonceArgs :
              (/\ lastOp'[w].op = "handle_nonce_conflict" /\ lastOp'[w].arg = b
               /\ \E t \in Tasks, f \in NonceArgs : HandleNonceConflict(t, w, f, b)) =>
                  /\ NonceGetCopied(nonces', w) = <<b>>
                  /\ lastOp'[w].ret = <<b + 1>>
       /\ \A t \in Tasks :
              (GetNextInsert(t) /\ lastOp[ncall[t].wallet].op = "handle_nonce_conflict") =>
                  lastOp'[ncall[t].wallet].ret = <<lastOp[ncall[t].wallet].arg + 1>>]_vars

\* A get_next_nonce is under way on a wallet right after handle_nonce_conflict(wallet,
\* failed, observed) with observed >= 1, and has read observed.
C4_Witness ==
    \E t \in Tasks :
        LET w == ncall[t].wallet
        IN /\ npc[t] = "read" /\ ncall[t].op = "get_next_nonce"
           /\ lastOp[w].op = "handle_nonce_conflict"
           /\ lastOp[w].arg >= 1
           /\ ncall[t].cur = lastOp[w].arg

\* C5: get_current_nonce never changes the nonce table; it returns None for a wallet no
\* insert ever ran for and Some(the last value inserted) otherwise; and no operation
\* removes a wallet's entry.
C5_GetCurrentReadsOnly ==
    [][/\ \A t \in Tasks, w \in Wallets :
              GetCurrentNonce(t, w) =>
                  /\ nonces' = nonces
                  /\ lastOp'[w].ret = lastStored[w]
       /\ DOMAIN nonces \subseteq DOMAIN nonces']_vars

\* get_current_nonce returned None for one wallet and Some(v), v >= 1, for the other.
C5_Witness ==
    \E w1 \in Wallets, w2 \in Wallets :
        /\ lastOp[w1].op = "get_current_nonce" /\ lastOp[w1].ret = <<>>
        /\ lastOp[w2].op = "get_current_nonce" /\ Len(lastOp[w2].ret) = 1
        /\ lastOp[w2].ret[1] >= 1

(***************************************************************************)
(* Properties of CircuitBreaker.                                           *)
(***************************************************************************)
\* The time since the last recorded failure is at least timeout_duration.
OpenTimeoutElapsed == now - lastFailAt >= config.timeout_duration

C7_OpenRejectsUntilTimeout ==
    [][\A t \in Tasks :
          CallInvoke(t) => ~(ccall[t].sawOpen /\ ~OpenTimeoutElapsed)]_vars

\* C8: the breaker leaves Open only for HalfOpen, and only when the time since the last
\* recorded failure is at least timeout_duration, whatever timeout_duration is.
C8_LeavesOpenOnlyAfterTimeout ==
    [][(cbState = "Open" /\ cbState' # "Open") =>
           (cbState' = "HalfOpen" /\ OpenTimeoutElapsed)]_vars

QuiescentConsistent ==
    /\ cbState = "Closed" => failure_count < config.failure_threshold
    /\ cbState = "HalfOpen" => success_count < config.success_threshold
    /\ cbState = "Open" => (failure_count >= config.failure_threshold /\ success_count = 0)

\* C11: under any interleaving of concurrent calls the outcome of each call takes effect
\* atomically: whenever no call is in flight the state and counters are those some
\* sequential order of whole calls produces (so the breaker is not Open with fewer than
\* failure_threshold failures recorded since the last success), and the breaker never
\* goes from Open to Closed, which is what closing after a HalfOpen failure is.
C11_OutcomesAtomic ==
    /\ [](AllIdle => QuiescentConsistent)
    /\ [][~(cbState = "Open" /\ cbState' = "Closed")]_vars

\* A call's operation has just failed: on_failure is about to run.
Failing == \E t \in Tasks : cpc[t] = "f_inc"

\* A call is inside on_failure.
FailureInFlight ==
    \E t \in Tasks : cpc[t] \in {"f_inc", "f_time", "f_read", "open_w", "open_sc"}

\* The timeout of the last recorded failure ends within the run of the clock.
TimeoutWithinRun ==
    AsSecs(MaxTime) - last_failure_time >= AsSecs(config.timeout_duration)

C15_RetryBudget ==
    /\ [](\A t \in Tasks :
             rcall[t].max_retries >= 1 =>
                 /\ rpc[t] = "attempt" => rcall[t].started = rcall[t].attempts + 1
                 /\ rpc[t] = "backoff" => rcall[t].started = rcall[t].attempts
                 /\ rcall[t].started <= rcall[t].max_retries
                 /\ (rpc[t] # "done" => rcall[t].attempts < rcall[t].max_retries)
                 /\ (rcall[t].result.kind = "FailedAfter" =>
                         /\ rcall[t].result.attempts = rcall[t].max_retries
                         /\ rcall[t].started = rcall[t].max_retries))
    /\ [][\A t \in Tasks :
             rcall[t].max_retries >= 1 =>
                 /\ \A v \in Values :
                        AttemptOk(t, v) =>
                            /\ rpc'[t] = "done"
                            /\ rcall'[t].result.kind = "Ok" /\ rcall'[t].result.val = v
                 /\ \A e \in Errors :
                        (AttemptErr(t, e) /\ rcall[t].attempts + 1 = rcall[t].max_retries) =>
                            /\ rpc'[t] = "done"
                            /\ rcall'[t].result =
                                   [kind |-> "FailedAfter", val |-> e,
                                    attempts |-> rcall[t].max_retries]
                 /\ (rpc[t] = "done" /\ rpc'[t] # "done") =>
                        (rpc'[t] = "idle" /\ rcall'[t] = NoRetry)]_vars

\* A loop called with max_retries = 3 has ended with the aggregate error after 3 attempts.
C15_Witness ==
    \E t \in Tasks :
        /\ rpc[t] = "done" /\ rcall[t].max_retries = 3
        /\ rcall[t].result.kind = "FailedAfter" /\ rcall[t].started = 3

\* C16: a timed-out attempt ends the loop whatever the attempt's index: the timeout error
\* is returned, no further attempt is begun and no sleep follows; an attempt that returns
\* an error is followed by a sleep and a further attempt while the budget is not spent.
C16_TimeoutTerminal ==
    [][\A t \in Tasks :
          /\ AttemptTimeout(t) =>
                 /\ rpc'[t] = "done" /\ rcall'[t].result.kind = "TimedOut"
                 /\ rcall'[t].started = rcall[t].started
                 /\ rcall'[t].sleeps = rcall[t].sleeps
          /\ (rpc[t] = "done" /\ rcall[t].result.kind = "TimedOut") =>
                 rpc'[t] \in {"done", "idle"}
          /\ \A e \in Errors :
                 (AttemptErr(t, e) /\ rcall[t].attempts + 1 < rcall[t].max_retries) =>
                     rpc'[t] = "backoff"
          /\ BackoffDone(t) =>
                 (rpc'[t] = "attempt" /\ rcall'[t].started = rcall[t].started + 1)]_vars

\* The third attempt of a loop timed out, after two attempts that returned errors.
C16_Witness ==
    \E t \in Tasks :
        /\ rpc[t] = "done" /\ rcall[t].result.kind = "TimedOut"
        /\ rcall[t].attempts = 2 /\ rcall[t].started = 3

\* The delays 100 ms, 200 ms, 400 ms, ...: each the double of the one before.
RECURSIVE ExpectedDelay(_)
ExpectedDelay(k) == IF k <= 1 THEN 100 ELSE 2 * ExpectedDelay(k - 1)

\* C17: the delay slept after the k-th failed attempt and before attempt k+1 is
\* 100 ms * 2^(k-1) (100, 200, 400, ...), one sleep per failed attempt but the last:
\* no sleep follows the failed attempt that spends the budget.
C17_BackoffDoubles ==
    /\ [](\A t \in Tasks :
             /\ rpc[t] = "backoff" =>
                    /\ rcall[t].backoff = ExpectedDelay(rcall[t].attempts)
                    /\ rcall[t].sleeps = rcall[t].attempts
                    /\ (rcall[t].attempts = 1 => rcall[t].backoff = 100)
                    /\ (rcall[t].attempts = 2 => rcall[t].backoff = 200)
                    /\ (rcall[t].attempts = 3 => rcall[t].backoff = 400)
             /\ rcall[t].result.kind = "FailedAfter" =>
                    rcall[t].sleeps = rcall[t].attempts - 1)
    /\ [][\A t \in Tasks, e \in Errors :
             (AttemptErr(t, e) /\ rcall[t].attempts + 1 >= rcall[t].max_retries) =>
                 (rpc'[t] = "done" /\ rcall'[t].sleeps = rcall[t].sleeps)]_vars

\* A loop is in its third sleep, of 400 ms.
C17_Witness ==
    \E t \in Tasks :
        rpc[t] = "backoff" /\ rcall[t].attempts = 3 /\ rcall[t].backoff = 400

(***************************************************************************)
(* Properties of the provider operations, checked under SpecProvider.      *)
(***************************************************************************)
FramesOf(t) == {pstack[t][i] : i \in 1..Depth(t)}
AllFrames == UNION {FramesOf(t) : t \in Tasks}
TopAfter(t) == pstack'[t][Len(pstack'[t])]

\* C13: what CircuitBreaker::call returns tells what happened to the wrapped operation:
\* OperationFailed(e), with e the very error the operation returned, exactly when the
\* operation was invoked and failed; Ok(v), with the operation's value, exactly when it
\* was invoked and succeeded; CircuitOpen, with nothing of the operation in it, exactly
\* when the operation was not invoked.  execute_with_circuit hands e on unchanged.
C13_CallReturnsWhatHappened ==
    /\ [](\A f \in AllFrames :
             (UsesBreaker(f.op) /\ f.cbres.kind # "none") =>
                 /\ f.cbres.kind = "OperationFailed" <=> (f.invoked /\ f.opres.kind = "Err")
                 /\ f.cbres.kind = "Ok" <=> (f.invoked /\ f.opres.kind = "Ok")
                 /\ f.cbres.kind = "CircuitOpen" <=> ~f.invoked
                 /\ f.cbres.kind = "OperationFailed" =>
                        (f.cbres.err = f.opres.err /\ f.res = ErrRes(f.opres.err))
                 /\ f.cbres.kind = "Ok" =>
                        (f.cbres.val = f.opres.val /\ f.res = OkRes(f.opres.val))
                 /\ f.cbres.kind = "CircuitOpen" =>
                        /\ f.step = 0 /\ f.opres = NoRes
                        /\ f.cbres.err = NoErr /\ f.cbres.val = "none"
                        /\ f.res = ErrRes(CircuitOpenErr(f.op)))
    /\ [][\A t \in Tasks :
             /\ \A r \in ExtOutcomes :
                    (ExtCompletes(t, r) /\ r.kind = "Err" /\ CurStep(Top(t)).fatal) =>
                        TopAfter(t).opres = r
             /\ (StartExt(t) \/ StartRetry(t) \/ StartNested(t)) =>
                    (UsesBreaker(Top(t).op) => Top(t).invoked)
             /\ (BodyEnd(t) /\ UsesBreaker(Top(t).op)) =>
                    /\ TopAfter(t).cbres.kind \in {"Ok", "OperationFailed"}
                    /\ Top(t).opres.kind = "Err" => TopAfter(t).cbres.err = Top(t).opres.err]_vars

\* get_token_decimals returns the error e2 of its external call, which came out of the
\* breaker inside OperationFailed.
C13_Witness ==
    \E t \in Tasks :
        /\ At(t, "ret") /\ Top(t).op = "get_token_decimals"
        /\ Top(t).cbres.kind = "OperationFailed" /\ Top(t).cbres.err = ExtErr("e2")
        /\ Top(t).res = ErrRes(ExtErr("e2"))

\* A call that is suspended: on an external call, on a retry loop (an attempt or a
\* backoff sleep), on another provider operation, or in the semaphore's queue.
Suspended(f) == f.pc \in {"op", "retry", "nested", "wait"}

PermitsOf(t) == Cardinality({i \in 1..Depth(t) : pstack[t][i].permit})
RECURSIVE HeldUpTo(_)
HeldUpTo(n) == IF n = 0 THEN 0 ELSE PermitsOf(n) + HeldUpTo(n - 1)
\* The permits held by the operations in flight.
Held == HeldUpTo(NumTasks)

\* C18: the operations in flight hold at most max_concurrent_requests permits, and the
\* semaphore never has less than none left, however many callers there are.
C18_PermitsBounded ==
    /\ Held <= max_concurrent_requests
    /\ permits >= 0
    /\ permits <= max_concurrent_requests

\* Every permit of a semaphore of two is held, and a further caller is queued.
C18_Witness ==
    /\ max_concurrent_requests = 2
    /\ Held = 2
    /\ waitq # <<>>

NothingInFlight == \A t \in Tasks : Depth(t) = 0

\* C19: an operation that returns gives its permit back, whatever it returns: a permit
\* is either available or held by an operation still in flight, so that with nothing
\* in flight all max_concurrent_requests permits are available; the permit of a
\* returning operation goes to the semaphore or to the oldest queued caller.
C19_PermitsReturned ==
    /\ [](Held + permits = max_concurrent_requests)
    /\ [](NothingInFlight => permits = max_concurrent_requests)
    /\ [][\A t \in Tasks :
             (Return(t) /\ Top(t).permit) =>
                 \/ waitq = <<>> /\ permits' = permits + 1
                 \/ /\ waitq # <<>> /\ permits' = permits
                    /\ TopAfter(Head(waitq)).permit]_vars

\* Enough operations have failed and returned to open the breaker; nothing is in flight
\* and the permits are all back.
C19_Witness ==
    /\ NothingInFlight
    /\ permits = max_concurrent_requests
    /\ cbState = "Open"

InQueue(t) == \E i \in 1..Len(waitq) : waitq[i] = t

\* C20: a caller waits for a permit only while there is none (the oldest waiting caller
\* gets the next permit given back, at once); a waiting caller whose 10 s run out
\* returns the overloaded error, without its operation going through the breaker or
\* making an external call, and with the breaker's state and counters as they were.
C20_WaitOrOverloaded ==
    /\ [](waitq # <<>> => permits = 0)
    /\ [](\A t \in Tasks : At(t, "wait") <=> InQueue(t))
    /\ [](\A f \in AllFrames :
             f.res = ErrRes(OverloadedErr) /\ UsesPermit(f.op) /\ ~f.permit =>
                 /\ ~f.invoked /\ f.step = 0
                 /\ f.cbres = NoRes /\ f.opres = NoRes)
    /\ [][\A t \in Tasks :
             /\ AcquireTimeout(t) =>
                    /\ TopAfter(t).pc = "ret" /\ TopAfter(t).res = ErrRes(OverloadedErr)
                    /\ ~TopAfter(t).invoked /\ TopAfter(t).step = 0
                    /\ ~InQueue(t)'
                    /\ BreakerUntouched
             /\ (At(t, "wait") /\ Head(waitq) = t
                   /\ \E u \in Tasks : Return(u) /\ Top(u).permit) =>
                    (TopAfter(t).pc = "enter" /\ TopAfter(t).permit)]_vars

\* A get_token_decimals called from inside simulate_swap gave up waiting for a permit.
C20_Witness ==
    \E t \in Tasks :
        /\ Depth(t) = 2 /\ At(t, "ret")
        /\ Top(t).res = ErrRes(OverloadedErr) /\ ~Top(t).permit
        /\ pstack[t][1].op = "simulate_swap"

(***************************************************************************)
(* Properties of sequences of whole breaker calls, checked under SpecCalls.*)
(***************************************************************************)
\* C30: a successful call through a Closed breaker leaves the failure counter at 0, so
\* the counter of a Closed breaker is the length of the current run of consecutive
\* failures, and a breaker that has seen no run of failure_threshold consecutive
\* failures is still Closed.
C30_OnlyConsecutiveFailuresOpen ==
    /\ [](maxRun < config.failure_threshold => cbState = "Closed")
    /\ [](cbState = "Closed" /\ maxRun < config.failure_threshold =>
              failure_count = failRun)
    /\ [][(cbState = "Closed" /\ WholeCall(TRUE)) =>
              (cbState' = "Closed" /\ failure_count' = 0)]_vars

\* A breaker with failure_threshold = 2 is Closed after three failed operations, no two
\* of them in a row.
C30_Witness ==
    /\ config.failure_threshold = 2
    /\ cbState = "Closed"
    /\ failedCalls = 3 /\ maxRun = 1 /\ failRun = 1 /\ failure_count = 1

\* Task t awaits an external call of the RPC provider: one made by the body of the
\* operation on top of its stack, or an attempt of that operation's retry loop.
CallsOut(t) == At(t, "op") \/ (At(t, "retry") /\ rpc[t] = "attempt")

\* The operations the layering is claimed of, among those a client calls here.
ClaimedOps == {"get_eth_balance", "get_gas_price", "health_check", "simulate_swap"}

\* C21: every external call of every operation is made while a permit is held,
\* inside the circuit breaker and inside retry_with_backoff.
C21_EveryCallWrapped ==
    \A t \in Tasks :
        (CallsOut(t) /\ pstack[t][1].op \in ClaimedOps) =>
            /\ \E i \in 1..Depth(t) : pstack[t][i].permit
            /\ Top(t).invoked
            /\ At(t, "retry")

\* The quoter's call of get_token_price (the third step of its body) ended in an error.
QuoterFailed(f) ==
    /\ f.op = "get_token_price"
    /\ \/ f.step = 4 /\ f.val = "none"
       \/ f.step = 3 /\ f.opres.kind = "Err" /\ f.opres.err.tag = "ext"

\* C24: when the quoter's call fails, get_token_price (for a token other than WETH)
\* returns Ok with price_eth 0, no price_usd and the source "fallback_unavailable",
\* and the breaker records no failure for it.
C24_QuoterFailureIsUnavailable ==
    /\ [](\A t \in Tasks :
              (At(t, "ret") /\ QuoterFailed(Top(t))) =>
                  /\ Top(t).res.kind = "Ok"
                  /\ Top(t).res.val = TokenPrice("0", "None", "fallback_unavailable"))
    /\ [][\A t \in Tasks :
              (At(t, "run") /\ QuoterFailed(Top(t)) /\ BodyEnd(t)) =>
                  /\ failure_count' <= failure_count
                  /\ lastFailAt' = lastFailAt
                  /\ cbState' = "Open" => cbState = "Open"]_vars

\* The feed gave a price, the quoter failed, and get_token_price returns the
\* unavailable price.
C24_Witness ==
    \E t \in Tasks :
        /\ At(t, "ret") /\ QuoterFailed(Top(t))
        /\ Top(t).eth_usd_price = "Some"
        /\ Top(t).res.kind = "Ok"
        /\ Top(t).res.val.source = "fallback_unavailable"

\* fetch_eth_usd_price got an answer of 0 or less from the feed.
GotNonPositive(f) ==
    /\ f.op = "fetch_eth_usd_price"
    /\ f.pc \in {"run", "ret"}
    /\ f.val = "nonpositive"

\* C25: for an answer of 0 or less fetch_eth_usd_price returns an error and makes no
\* price of it; the closure of get_token_price then has no ETH/USD price, and the
\* TokenPrice it returns has no price_usd.
C25_NonPositiveAnswerUnused ==
    /\ [](\A t \in Tasks :
              (Depth(t) > 0 /\ GotNonPositive(Top(t))) =>
                  /\ Top(t).opres = ErrRes(NonPositiveErr)
                  /\ Top(t).pc = "ret" => Top(t).res = ErrRes(NonPositiveErr))
    /\ [][\A t \in Tasks :
              (At(t, "ret") /\ GotNonPositive(Top(t)) /\ Return(t)) =>
                  Top(t)'.eth_usd_price = "None"]_vars
    /\ [](\A t \in Tasks :
              (At(t, "ret") /\ Top(t).op \in PriceOps /\ Top(t).res.kind = "Ok"
                 /\ Top(t).eth_usd_price = "None") =>
                  Top(t).res.val.price_usd = "None")

\* fetch_eth_usd_price, called for the price of WETH, returns the error of an answer
\* of 0 or less.
C25_Witness ==
    \E t \in Tasks :
        /\ Depth(t) = 2 /\ GotNonPositive(Top(t)) /\ Top(t).pc = "ret"
        /\ Top(t).res = ErrRes(NonPositiveErr)
        /\ pstack[t][1].op = "get_token_price_weth"

(***************************************************************************)
(* Properties of the conversions                                           *)
(***************************************************************************)
\* The Decimals a and b stand for the same number (of one sign): a.m / 10^a.scale =
\* b.m / 10^b.scale
SameValue(a, b) == Shift(a.m, b.scale) = Shift(b.m, a.scale)

\* The Decimal x has a digit other than 0 after the point.
FractionDigit(x) == \E i \in 1..x.scale : DigitAt(x.m, i) # 0

Returned(fn) == numRet.fn = fn

\* C22: for a receipt with a block number, confirmations is latest_block -
\* receipt_block + 1 when latest_block >= receipt_block and 0 when latest_block <
\* receipt_block.
C22_ConfirmationsZeroWhenBehind ==
    (Returned("transaction_status") /\ numCall.x # <<>>) =>
        \A b \in {c \in Blocks : numCall.x[1].block_number = <<c>>} :
            numRet.out.confirmations =
                IF numCall.n >= b THEN numCall.n - b + 1 ELSE 0

\* C23: get_transaction_status returns Pending, with 0 confirmations and no block
\* number, exactly when there is no receipt, Confirmed exactly when there is a receipt
\* whose success flag is true, Failed exactly when there is one whose flag is false,
\* and no other status.
C23_StatusFromReceipt ==
    Returned("transaction_status") =>
        LET receipt == numCall.x
            info == numRet.out
        IN /\ info.status \in {"Pending", "Confirmed", "Failed"}
           /\ (info.status = "Pending") <=> (receipt = <<>>)
           /\ info.status = "Pending" => (info.confirmations = 0 /\ info.block_number = <<>>)
           /\ (info.status = "Confirmed") <=> (receipt # <<>> /\ receipt[1].success)
           /\ (info.status = "Failed") <=> (receipt # <<>> /\ ~receipt[1].success)

\* A failed transaction in a block below the head was reported Failed.
C23_Witness ==
    /\ Returned("transaction_status")
    /\ numCall.x # <<>> /\ ~numCall.x[1].success
    /\ numCall.x[1].block_number = <<1>> /\ numCall.n = 2
    /\ numRet.out.status = "Failed"

\* C26: for every quoted output and every accepted slippage tolerance, computing the
\* minimum output succeeds, the bound is at most the quoted output, and it is below it
\* when the slippage and the quoted output are positive.
C26_MinOutNeverFails ==
    Returned("min_amount_out") =>
        /\ numRet.out.kind = "Ok"
        /\ BigLeq(numRet.out.val, numCall.x.m)
        /\ (numCall.y.m # <<>> /\ numCall.x.m # <<>>) => BigLess(numRet.out.val, numCall.x.m)

\* C27: decimal_to_u256 fails exactly when its argument is negative or has a digit
\* other than 0 after the point, and otherwise returns the integer n with n = value.
C27_IntegerOrError ==
    Returned("decimal_to_u256") =>
        LET value == numCall.x
            bad == (value.neg /\ value.m # <<>>) \/ FractionDigit(value)
        IN /\ (numRet.out.kind = "Err") <=> bad
           /\ ~bad => /\ numRet.out.kind = "Ok"
                      /\ Shift(numRet.out.val, value.scale) = value.m

\* decimal_to_u256 returned the integer of a Decimal written with digits after the
\* point, all of them 0 (10^10 with a scale of 1 is 10^9).
C27_Witness ==
    /\ Returned("decimal_to_u256")
    /\ numCall.x = Dec(FALSE, Pow10(10), 1)
    /\ numRet.out = [kind |-> "Ok", val |-> Pow10(9)]

\* C28: to_raw_units returns exactly value * 10^decimals or fails with Overflow, for
\* every decimals, those of 20 and more included.
C28_ExactOrOverflow ==
    Returned("to_raw_units") =>
        \/ numRet.out.kind = "Overflow"
        \/ /\ numRet.out.kind = "Ok"
           /\ SameValue(numRet.out.val, Dec(FALSE, Shift(numCall.x.m, numCall.n), numCall.x.scale))

\* C29: for decimals of 0, 6, 8 and 18 and an amount x whose to_raw_units succeeds,
\* from_raw_units(to_raw_units(x), decimals) has the value of x.
C29_RoundTrip ==
    (Returned("from_raw_units") /\ numCall.n \in {0, 6, 8, 18}) =>
        /\ numRet.out.kind = "Ok"
        /\ numRet.out.over = <<1>>
        /\ SameValue(numRet.out.val, numCall.y)
        /\ ~numRet.out.val.neg

\* An amount of 29 digits, 28 of them after the point, went to raw units of 18
\* decimals and back.
C29_Witness ==
    /\ Returned("from_raw_units") /\ numCall.n = 18
    /\ numCall.y.scale = DecMaxScale /\ Len(numCall.y.m) = 29 /\ ModTen(numCall.y.m) = 1
    /\ numRet.out.kind = "Ok"

(***************************************************************************)
(* Properties of NonceManager: one wallet's entry and the others'.         *)
(***************************************************************************)
\* The step is the completion of a NonceManager method called for wallet w.
ActsOn(w) ==
    \E t \in Tasks :
        \/ GetNextInsert(t) /\ ncall[t].wallet = w
        \/ InitCompare(t) /\ ncall[t].wallet = w
        \/ \E n \in NonceArgs : ResetNonce(t, w, n)
        \/ GetCurrentNonce(t, w)
        \/ \E f \in NonceArgs, b \in NonceArgs : HandleNonceConflict(t, w, f, b)

\* C31: a method called for one wallet leaves every other wallet's entry as it was
\* (absent or its stored value), and with it the values get_next_nonce has returned and
\* will return for the other wallet: a wallet's entry and its run of returned values
\* change only in steps of methods called for that wallet.
C31_OtherWalletsUntouched ==
    [][\A w \in Wallets :
          \/ /\ NonceGetCopied(nonces', w) = NonceGetCopied(nonces, w)
             /\ run'[w] = run[w]
             /\ base'[w] = base[w]
             /\ issued'[w] = issued[w]
          \/ ActsOn(w)]_vars

\* Both wallets have an entry, w2's run of get_next_nonce values is under way and the
\* last call for w1 was a reset.
C31_Witness ==
    /\ DOMAIN nonces = Wallets
    /\ run["w2"] # <<>>
    /\ lastOp["w2"].op = "get_next_nonce"
    /\ lastOp["w1"].op = "reset_nonce"
    /\ nonces["w1"] # nonces["w2"]

\* C32: reset_nonce(wallet, n) leaves n stored for the wallet, whether the wallet had no
\* entry, a lower value or a higher one; a get_next_nonce for the wallet whose preceding
\* call for that wallet was reset_nonce(wallet, n) returns n + 1 and leaves n + 1 stored.
C32_ResetThenNext ==
    [][\A t \in Tasks, w \in Wallets :
          /\ \A n \in NonceArgs :
                ResetNonce(t, w, n) => NonceGetCopied(nonces', w) = <<n>>
          /\ (GetNextInsert(t) /\ ncall[t].wallet = w /\ lastOp[w].op = "reset_nonce")
                => /\ lastOp'[w].ret = <<lastOp[w].arg + 1>>
                   /\ NonceGetCopied(nonces', w) = <<lastOp[w].arg + 1>>]_vars

\* A get_next_nonce is under way for a wallet whose last call was a reset to a value
\* lower than one already handed out.
C32_Witness ==
    \E t \in Tasks, w \in Wallets :
        /\ npc[t] = "read" /\ ncall[t].op = "get_next_nonce" /\ ncall[t].wallet = w
        /\ lastOp[w].op = "reset_nonce"
        /\ ncall[t].cur = lastOp[w].arg
        /\ \E v \in BagToSet(issued[w]) : v > lastOp[w].arg

\* C40: for every stored value get_next_nonce, and for every observed value
\* handle_nonce_conflict, either fails or returns a value strictly greater than that
\* value (so never 0 and never a smaller number), u64::MAX included.
C40_NonceNeverWraps ==
    numRet.fn \in {"get_next_nonce", "handle_nonce_conflict"}
        => \/ numRet.out.kind = "panic"
           \/ BigLess(numCall.x, numRet.out.val)

(***************************************************************************)
(* Properties of create_ethereum_provider_with_failover.                   *)
(***************************************************************************)
\* The URLs of the call for which AlloyEthereumProvider::new succeeds.
GoodUrls ==
    {i \in 1..Len(failover.rpc_urls) :
        NewProvider(i, failover.rpc_urls[i], failover.key_ok).kind = "Ok"}

\* C33: the URLs are tried in list order, each at most once; the call returns the
\* provider of the first URL for which construction and health check succeed, having
\* tried no URL after it; when every URL fails it returns the error of the last URL of
\* the list, having tried them all; for an empty list it returns the error
\* "No RPC URLs provided".
C33_FailoverInOrder ==
    /\ failover.pc # "none" => failover.tried = [j \in 1..Len(failover.tried) |-> j]
    /\ failover.pc = "done" =>
          LET n == Len(failover.rpc_urls)
          IN CASE GoodUrls # {} ->
                    LET first == CHOOSE i \in GoodUrls : \A j \in GoodUrls : i <= j
                    IN /\ failover.result = ProviderOf(first)
                       /\ Len(failover.tried) = first
               [] GoodUrls = {} /\ n > 0 ->
                    /\ failover.result = NewProvider(n, failover.rpc_urls[n], failover.key_ok)
                    /\ Len(failover.tried) = n
               [] OTHER ->
                    /\ failover.result = NoUrlsErr
                    /\ failover.tried = <<>>

\* Two URLs failed in different ways, the third gave the provider.
C33_Witness ==
    /\ failover.pc = "done"
    /\ failover.result.kind = "Ok"
    /\ failover.tried = <<1, 2, 3>>
    /\ failover.last_err # <<>>
    /\ failover.rpc_urls[1] # failover.rpc_urls[2]

(***************************************************************************)
(* Properties of retry_with_backoff for every max_retries, 0 included.     *)
(***************************************************************************)
\* C39: for every max_retries the operation is invoked at least once; a loop all of
\* whose attempts fail with an error makes max(1, max_retries) attempts; with
\* max_retries = 0, as with max_retries = 1, the loop makes one attempt, sleeps no
\* backoff and reports an error as failed after 1 attempt; and every loop begun returns.
C39_AtLeastOneAttempt ==
    /\ [](\A t \in Tasks :
            rpc[t] = "done" =>
                /\ rcall[t].started >= 1
                /\ rcall[t].result.kind = "FailedAfter" =>
                      /\ rcall[t].started = MaxOf(1, rcall[t].max_retries)
                      /\ rcall[t].result.attempts = MaxOf(1, rcall[t].max_retries)
                /\ rcall[t].max_retries \in {0, 1} =>
                      /\ rcall[t].started = 1
                      /\ rcall[t].sleeps = 0
                      /\ rcall[t].backoff = 0
                      /\ rcall[t].result.kind = "FailedAfter" =>
                            rcall[t].result.attempts = 1)
    /\ \A t \in Tasks : (rpc[t] \in {"attempt", "backoff"}) ~> (rpc[t] = "done")

\* A loop called with max_retries = 0 has returned the error of its one attempt.
C39_Witness ==
    \E t \in Tasks :
        /\ rpc[t] = "done"
        /\ rcall[t].max_retries = 0
        /\ rcall[t].result.kind = "FailedAfter"
        /\ rcall[t].started = 1

(***************************************************************************)
(* Properties of CircuitBreaker: what rejected and stale calls write.      *)
(***************************************************************************)
\* C37: a call that returns CircuitOpen has written nothing: no step of it changed the
\* state, the failure counter, the success counter or the last-failure timestamp (so
\* in particular it did not move the time from which the Open timeout is counted).
C37_RejectedCallWritesNothing ==
    [][\A t \in Tasks :
          /\ CallReject(t) => ~ccall[t].halfOpened
          /\ (CallStart(t) \/ UpdateCheck(t) \/ CallRead(t) \/ CallReject(t))
                => UNCHANGED <<cbState, failure_count, success_count, last_failure_time>>]_vars

\* C38 (thresholds of at least 1, calls made one at a time): whenever no call is in
\* flight, a Closed breaker has counted fewer failures than failure_threshold, a
\* HalfOpen breaker has counted fewer successes than success_threshold, and an Open
\* breaker's success counter is 0.
C38_CountersBelowThresholds ==
    AllIdle =>
        /\ config.failure_threshold >= 1 /\ config.success_threshold >= 1
        /\ cbState = "Closed" => failure_count < config.failure_threshold
        /\ cbState = "HalfOpen" => success_count < config.success_threshold
        /\ cbState = "Open" => success_count = 0

\* Between two calls the breaker is HalfOpen with a success counted, after having
\* been Closed with a failure counted and then Open.
C38_Witness ==
    /\ AllIdle
    /\ cbState = "HalfOpen"
    /\ success_count = 1
    /\ failure_count >= config.failure_threshold
    /\ config.failure_threshold > 1

\* A call admitted while the breaker was Closed is past its operation while the breaker
\* is no longer Closed: it has opened, or opened and become HalfOpen.
Stale(t) == ccall[t].admitted = "Closed" /\ cbState \in {"Open", "HalfOpen"}

\* C36: the outcome of a call admitted while Closed that completes after the breaker
\* has opened (or opened and become HalfOpen) changes nothing: the call does not
\* increment the success counter, does not reset the counters of the Open breaker,
\* does not store the last-failure timestamp, and neither closes nor re-opens the
\* circuit.
C36_StaleOutcomesIgnored ==
    [][\A t \in Tasks :
          Stale(t) => /\ ~SuccessInc(t)
                      /\ ~SuccessOpenResetFail(t)
                      /\ ~SuccessOpenResetSucc(t)
                      /\ ~FailureTime(t)
                      /\ ~CloseWrite(t)
                      /\ ~OpenWrite(t)]_vars

(***************************************************************************)
(* Properties of the provider's operations that call other operations.     *)
(***************************************************************************)
\* C34: no operation waits in acquire_permit while the task already holds a permit:
\* an operation queued for a permit has no caller among the provider's operations that
\* holds one (so the operations in flight never wait for permits that only they
\* themselves can give back).
C34_NoWaitWhileHolding ==
    \A t \in Tasks :
        At(t, "wait") => \A i \in 1..(Depth(t) - 1) : ~pstack[t][i].permit

\* The operation f failed because a breaker-wrapped operation it called failed in its
\* own external call: that operation's on_failure has counted the failure.
CountedInside(f) ==
    /\ f.opres.kind = "Err"
    /\ f.step \in 1..Len(Script(f.op))
    /\ CurStep(f).kind = "call"
    /\ UsesBreaker(CurStep(f).op)
    /\ f.opres.err.tag = "ext"

\* C35: a failed request adds exactly one to the breaker's failure counter, whether its
\* own external call failed or that of a breaker-wrapped operation it calls: when a
\* breaker-wrapped operation ends in an error, its on_failure adds one unless the
\* failure has already been counted inside, and then it adds nothing.
C35_OneFailureOneCount ==
    [][\A t \in Tasks :
          (BodyEnd(t) /\ UsesBreaker(Top(t).op) /\ Top(t).opres.kind = "Err")
              => failure_count' =
                     failure_count + (IF CountedInside(Top(t)) THEN 0 ELSE 1)]_vars

====
